---- MODULE Spec2Model ----
(***************************************************************************)
(* Model of the runtime proxy of openhands/app_server/websocket_proxy:     *)
(* the streaming relay (_websocket_proxy_impl with its two pump tasks,     *)
(* entered from either streaming route) and the request forwarder          *)
(* (http_proxy), for one inbound connection or call. One action is the     *)
(* code a coroutine runs between two suspension points. BuilderSpec calls  *)
(* the URL builder _get_agent_server_ws_url on its own; AbortSpec lets the *)
(* handler of a session be cancelled from outside; PairSpec runs the relay *)
(* of two sessions side by side; AuthSpec is one call of the               *)
(* BasicAuthMiddleware of openhands/server; SandboxSpec is one             *)
(* construction of a SandboxSpecInfo of openhands/app_server/sandbox.      *)
(***************************************************************************)
EXTENDS Integers, Sequences, FiniteSets, TLC

\* ------------------------------------------------------------------ bounds
\* How many messages the browser and the agent-server send in one session,
\* the two directions taken together.
MaxMessages == 2

\* --------------------------------------------------------------- constants
\* Python's None where an object is expected, and where a string is expected.
None == [none |-> TRUE]
NoneStr == "None"

\* A Python list, so that it compares with None.
List(items) == [items |-> items]

\* A Python str that the code takes apart or puts together: the sequence of
\* its pieces, a piece being a run of characters no operation here splits.
Str(text) == [text |-> text]

\* a + b, and the juxtaposition of an f-string
Concat(a, b) == Str(a.text \o b.text)

WS_1008_POLICY_VIOLATION == 1008
WS_1013_TRY_AGAIN_LATER == 1013
WS_1011_INTERNAL_ERROR == 1011

AGENT_SERVER == "AGENT_SERVER"
VSCODE == "VSCODE"

\* ------------------------------------------------- conversation identifiers
\* A conversation id is a string, modelled as the sequence of its characters.
HexDigits == <<"0", "1", "2", "3", "4", "5", "6", "7",
               "8", "9", "a", "b", "c", "d", "e", "f">>

UpperHex == <<"A", "B", "C", "D", "E", "F">>

\* 0123456789abcdef0123456789abcdef
IdHex == <<"0", "1", "2", "3", "4", "5", "6", "7", "8", "9", "a", "b", "c", "d", "e", "f",
           "0", "1", "2", "3", "4", "5", "6", "7", "8", "9", "a", "b", "c", "d", "e", "f">>

\* {01234567-89AB-cdef-0123-456789abcdef}: the same identifier, written with
\* hyphens, braces and two upper-case digits.
IdHyphen == <<"{", "0", "1", "2", "3", "4", "5", "6", "7", "-", "8", "9", "A", "B", "-",
              "c", "d", "e", "f", "-", "0", "1", "2", "3", "-",
              "4", "5", "6", "7", "8", "9", "a", "b", "c", "d", "e", "f", "}">>

\* invalid-uuid
IdInvalid == <<"i", "n", "v", "a", "l", "i", "d", "-", "u", "u", "i", "d">>

\* abc123: hexadecimal, but too short
IdShort == <<"a", "b", "c", "1", "2", "3">>

\* 32 characters, one of them not hexadecimal
IdNonHex == <<"0", "1", "2", "3", "4", "5", "6", "7", "8", "9", "a", "b", "c", "d", "e", "g",
              "0", "1", "2", "3", "4", "5", "6", "7", "8", "9", "a", "b", "c", "d", "e", "f">>

ConversationIds == {IdHex, IdHyphen, IdInvalid, IdShort, IdNonHex}

IsHexChar(c) ==
    \/ \E i \in 1..16 : HexDigits[i] = c
    \/ \E i \in 1..6 : UpperHex[i] = c

HexValue(c) ==
    IF \E i \in 1..16 : HexDigits[i] = c
    THEN (CHOOSE i \in 1..16 : HexDigits[i] = c) - 1
    ELSE (CHOOSE i \in 1..6 : UpperHex[i] = c) + 9

IsBrace(c) == c = "{" \/ c = "}"

RECURSIVE LStripBraces(_)
LStripBraces(s) ==
    IF s # <<>> /\ IsBrace(Head(s)) THEN LStripBraces(Tail(s)) ELSE s

RECURSIVE RStripBraces(_)
RStripBraces(s) ==
    IF s # <<>> /\ IsBrace(s[Len(s)])
    THEN RStripBraces(SubSeq(s, 1, Len(s) - 1))
    ELSE s

NotHyphen(c) == c # "-"

\* uuid.UUID(hex): strip('{}'), drop the hyphens, demand 32 hexadecimal digits;
\* the value is the 128-bit number, here the sequence of its 32 digit values.
ValueError == <<>>

UUID(hex) ==
    LET digits == SelectSeq(RStripBraces(LStripBraces(hex)), NotHyphen)
    IN  IF Len(digits) # 32 THEN ValueError
        ELSE IF \E i \in 1..32 : ~IsHexChar(digits[i]) THEN ValueError
        ELSE [i \in 1..32 |-> HexValue(digits[i])]

\* --------------------------------------------------- external collaborators
KnownUUID == UUID(IdHex)

SandboxIds == {"sandbox-123"}

\* scheme://host:port
Url(scheme, host, port) == Str(<<scheme, "://", host, ":", port>>)

\* scheme://host:port/
UrlSlash(scheme, host, port) == Concat(Url(scheme, host, port), Str(<<"/">>))

ExposedUrl(name, url) == [name |-> name, url |-> url]

ExposedUrlLists ==
    { None,
      List(<<>>),
      List(<<ExposedUrl(VSCODE, Url("http", "localhost", "8080"))>>),
      List(<<ExposedUrl(AGENT_SERVER, Url("http", "localhost", "33545"))>>),
      List(<<ExposedUrl(VSCODE, Url("http", "localhost", "8080")),
             ExposedUrl(AGENT_SERVER, UrlSlash("https", "agent.internal", "443"))>>) }

SessionApiKeys == {NoneStr, "test-api-key"}

AppConversationInfo(sandbox_id) == [sandbox_id |-> sandbox_id]

SandboxInfos == [exposed_urls : ExposedUrlLists, session_api_key : SessionApiKeys]

\* The prefix parameter of /runtime/{runtime_conversation_id}/sockets/events/{id}.
RuntimeConversationIds == {IdHex, IdShort}

\* ------------------------------------------------------- inbound requests
\* A header as it stands on the wire; the value is a Str's text.
Header(name, value) == [name |-> name, value |-> value]

\* A Python dict from header name to value, in insertion order: a sequence of
\* headers with distinct names.
Dict(entries) == [entries |-> entries]

\* str.lower() on the header names and scheme words of the model.
Lowered ==
    [n \in {"HOST", "Accept", "Connection", "Keep-Alive", "Transfer-Encoding",
            "X-Request-Id", "Content-Type", "Set-Cookie", "X-Session-API-Key",
            "Authorization", "Basic", "BASIC", "Bearer"} |->
        CASE n = "HOST" -> "host"
          [] n = "Authorization" -> "authorization"
          [] n = "Basic" -> "basic"
          [] n = "BASIC" -> "basic"
          [] n = "Bearer" -> "bearer"
          [] n = "Accept" -> "accept"
          [] n = "Connection" -> "connection"
          [] n = "Keep-Alive" -> "keep-alive"
          [] n = "Transfer-Encoding" -> "transfer-encoding"
          [] n = "X-Request-Id" -> "x-request-id"
          [] n = "Content-Type" -> "content-type"
          [] n = "Set-Cookie" -> "set-cookie"
          [] n = "X-Session-API-Key" -> "x-session-api-key"]

lower(name) == IF name \in DOMAIN Lowered THEN Lowered[name] ELSE name

InboundHeaders ==
    { <<Header("host", <<"app.example">>), Header("accept", <<"*/*">>)>>,
      <<Header("HOST", <<"app.example">>), Header("Connection", <<"keep-alive">>),
        Header("Keep-Alive", <<"timeout=5">>), Header("X-Request-Id", <<"42">>)>>,
      <<Header("host", <<"app.example">>), Header("Accept", <<"text/html">>),
        Header("accept", <<"application/json">>)>>,
      <<Header("host", <<"app.example">>),
        Header("X-Session-API-Key", <<"caller-key">>)>> }

\* {path:path} of the route, and request.url.query ("" when there is none).
Paths == {Str(<<"api", "/", "conversations">>), Str(<<"alive">>)}

Queries == {Str(<<>>), Str(<<"limit", "=", "10", "&", "q", "=", "a%20b">>)}

\* Line 469: the methods of the route.
Methods == {"GET", "POST", "PUT", "PATCH", "DELETE", "HEAD", "OPTIONS"}

\* A bytes object; b'' is Bytes("").
Bytes(b) == [bytes |-> b]

\* What "await request.body()" returns.
Bodies == {Bytes(""), Bytes("{\"command\": \"ls\"}")}

\* The inbound requests: every path, query string and header list on a GET
\* without body, and every method with and without body.
Requests ==
    [method : {"GET"}, path : Paths, query : Queries, headers : InboundHeaders,
     body : {Bytes("")}]
    \cup
    [method : Methods, path : {Str(<<"api", "/", "conversations">>)},
     query : {Str(<<>>)},
     headers : {<<Header("host", <<"app.example">>), Header("accept", <<"*/*">>)>>},
     body : Bodies]

VARIABLES
    endpoint,               \* "ws": /sockets/events/{id}; "http": /runtime/{id}/{path};
                            \* "ws_runtime": /runtime/{rid}/sockets/events/{id}
    conversation_id,        \* path parameter of the inbound connection or call
    runtime_conversation_id, \* path prefix parameter of the "ws_runtime" route
    conversations,          \* AppConversationInfoService: uuid -> AppConversationInfo or None
    sandboxes,              \* SandboxService: sandbox id -> SandboxInfo or None
    inDocker,               \* whether the proxy process itself runs in a container
    pc,                     \* position of the handler coroutine
    conversation_uuid,      \* local of the handler, empty until it is assigned
    app_conversation_info,  \* local of the handler
    sandbox,                \* local of the handler
    ws_url,                 \* local of _websocket_proxy_impl
    convLookups,            \* calls of get_app_conversation_info
    sandboxLookups,         \* calls of get_sandbox
    connectAttempts,        \* calls of websockets.connect
    additional_headers,     \* the headers websockets.connect was given, or None
    accepted,               \* websocket.accept() was called
    clientState,            \* inbound connection: connecting, open, disconnected, closed
    closeCalls,             \* codes of the websocket.close() calls of the relay
    connectFault,           \* what websockets.connect raised, "none" if nothing
    serverState,            \* outbound connection: none, open, peer_closed, closed
    c2s,                    \* task _proxy_client_to_server
    s2c,                    \* task _proxy_server_to_client
    done,                   \* first result of asyncio.wait
    pending,                \* second result of asyncio.wait
    cancelRequested,        \* tasks on which task.cancel() was called
    clientOut,              \* messages the browser sent, not yet received by the relay
    serverIn,               \* messages written to the agent-server connection
    serverOut,              \* messages the agent-server sent, not yet received
    clientIn,               \* messages written to the browser connection
    c2sRead,                \* messages receive_text() took from the browser connection
    s2cRead,                \* messages the iteration over server_ws yielded
    nClientSent,            \* how many messages the browser has sent
    nBackendSent,           \* how many messages the agent-server has sent
    request,                \* the inbound Request, None until http_proxy reads it
    base_url,               \* local of http_proxy
    target_url,             \* local of http_proxy
    forward_headers,        \* local of http_proxy
    httpRequests,           \* calls of httpx_client.request
    httpx_request,          \* the arguments of the call of httpx_client.request
    sessions,               \* two streaming sessions side by side: the locals of
                            \* each call of _websocket_proxy_impl and its connections
    scope,                  \* the ASGI scope BasicAuthMiddleware is called with
    _user,                  \* BasicAuthMiddleware._user
    _password,              \* BasicAuthMiddleware._password
    _exempt_paths,          \* BasicAuthMiddleware._exempt_paths
    authPc,                 \* position of BasicAuthMiddleware.__call__
    appCalls,               \* calls of the wrapped app
    sent,                   \* the messages the middleware itself sent
    input_value,            \* what SandboxSpecInfo is given as working_dir
    working_dir,            \* SandboxSpecInfo.working_dir, None until it is built
    outcome,                \* how the call of httpx_client.request ended
    response                \* the Response http_proxy returned, or None

vars == <<endpoint, conversation_id, runtime_conversation_id, conversations,
          sandboxes, inDocker, pc, conversation_uuid, app_conversation_info, sandbox,
          ws_url, convLookups, sandboxLookups, connectAttempts, accepted, clientState,
          closeCalls, connectFault, serverState, c2s, s2c, done, pending,
          cancelRequested, clientOut, serverIn, serverOut, clientIn, c2sRead, s2cRead,
          nClientSent, nBackendSent, request, base_url, target_url, forward_headers,
          httpRequests, outcome, response, additional_headers, httpx_request,
          sessions, scope, _user, _password, _exempt_paths, authPc, appCalls, sent,
          input_value, working_dir>>

inputVars == <<endpoint, conversation_id, runtime_conversation_id, conversations,
               sandboxes, inDocker>>

relayVars == <<c2s, s2c, done, pending, cancelRequested>>

trafficVars == <<clientOut, serverIn, serverOut, clientIn, c2sRead, s2cRead,
                 nClientSent, nBackendSent>>

httpVars == <<request, base_url, target_url, forward_headers, httpRequests,
              httpx_request, outcome, response>>

pairVars == <<sessions>>

authVars == <<scope, _user, _password, _exempt_paths, authPc, appCalls, sent>>

sandboxSpecVars == <<input_value, working_dir>>

Task(pos, exit, data) == [pos |-> pos, exit |-> exit, data |-> data]

NoTask == Task("idle", "none", None)

\* No pair of sessions is under observation.
PairIdle == sessions = <<>>

\* The middleware is not under observation.
AuthIdle ==
    /\ scope = None
    /\ _user = None
    /\ _password = None
    /\ _exempt_paths = <<>>
    /\ authPc = "Idle"
    /\ appCalls = 0
    /\ sent = <<>>

\* No SandboxSpecInfo is under observation.
SandboxSpecIdle ==
    /\ input_value = None
    /\ working_dir = None

Init ==
    /\ endpoint \in {"ws", "ws_runtime", "http"}
    /\ conversation_id \in ConversationIds
    /\ runtime_conversation_id \in
           IF endpoint = "ws_runtime" THEN RuntimeConversationIds ELSE {<<>>}
    /\ conversations \in
           [{KnownUUID} -> {AppConversationInfo(id) : id \in SandboxIds} \cup {None}]
    /\ sandboxes \in [SandboxIds -> SandboxInfos \cup {None}]
    /\ inDocker \in BOOLEAN
    /\ pc = IF endpoint = "ws_runtime" THEN "Route" ELSE "Start"
    /\ conversation_uuid = <<>>
    /\ app_conversation_info = None
    /\ sandbox = None
    /\ ws_url = None
    /\ convLookups = 0
    /\ sandboxLookups = 0
    /\ connectAttempts = 0
    /\ additional_headers = None
    /\ accepted = FALSE
    /\ clientState = "connecting"
    /\ closeCalls = <<>>
    /\ connectFault = "none"
    /\ serverState = "none"
    /\ c2s = NoTask
    /\ s2c = NoTask
    /\ done = {}
    /\ pending = {}
    /\ cancelRequested = {}
    /\ clientOut = <<>>
    /\ serverIn = <<>>
    /\ serverOut = <<>>
    /\ clientIn = <<>>
    /\ c2sRead = <<>>
    /\ s2cRead = <<>>
    /\ nClientSent = 0
    /\ nBackendSent = 0
    /\ request = None
    /\ base_url = None
    /\ target_url = None
    /\ forward_headers = None
    /\ httpRequests = 0
    /\ httpx_request = None
    /\ outcome = None
    /\ response = None
    /\ PairIdle
    /\ AuthIdle
    /\ SandboxSpecIdle

\* ------------------------------------------------------------ URL helpers
DOCKER_HOST == "host.docker.internal"

\* docker_utils.replace_localhost_hostname_for_docker: inside a container the
\* host name localhost is replaced by the address of the container host.
replace_localhost_hostname_for_docker(url) ==
    Str([i \in 1..Len(url.text) |->
            IF inDocker /\ i = 3 /\ url.text[i] = "localhost"
            THEN DOCKER_HOST
            ELSE url.text[i]])

\* urllib.parse.urlparse, as far as the code reads its result: the scheme is
\* what stands before "://", the netloc what follows up to the next "/", "?"
\* or "#".
NetlocEnd(text) ==
    IF \E i \in 3..Len(text) : text[i] \in {"/", "?", "#"}
    THEN (CHOOSE i \in 3..Len(text) :
              /\ text[i] \in {"/", "?", "#"}
              /\ \A j \in 3..(i - 1) : text[j] \notin {"/", "?", "#"}) - 1
    ELSE Len(text)

urlparse(url) ==
    IF Len(url.text) >= 2 /\ url.text[2] = "://"
    THEN [scheme |-> url.text[1],
          netloc |-> Str(SubSeq(url.text, 3, NetlocEnd(url.text)))]
    ELSE [scheme |-> "", netloc |-> Str(<<>>)]

\* urllib.parse.quote_plus on the credentials of the model: letters, digits
\* and "-" stay, "+" and "/" are percent-encoded, a blank becomes "+".
EncodedKeys ==
    [k \in {"", "test-api-key", "k+/ 1"} |->
        IF k = "k+/ 1" THEN "k%2B%2F+1" ELSE k]

quote_plus(str) == EncodedKeys[str]

\* urllib.parse.urlencode of a dict with one entry
urlencode(name, value) == Str(<<name, "=", quote_plus(value)>>)

\* str.rstrip("/")
RECURSIVE RStripSlash(_)
RStripSlash(text) ==
    IF text # <<>> /\ text[Len(text)] = "/"
    THEN RStripSlash(SubSeq(text, 1, Len(text) - 1))
    ELSE text

rstrip(str) == Str(RStripSlash(str.text))

\* Python truthiness of an optional string.
Truthy(str) == str # NoneStr /\ str # ""

\* Index of the first exposed URL named AGENT_SERVER, 0 when there is none:
\* the loop "for exposed_url in exposed_urls: if exposed_url.name == AGENT_SERVER".
FirstAgentServer(items) ==
    IF \E i \in 1..Len(items) : items[i].name = AGENT_SERVER
    THEN CHOOSE i \in 1..Len(items) :
            /\ items[i].name = AGENT_SERVER
            /\ \A j \in 1..(i - 1) : items[j].name # AGENT_SERVER
    ELSE 0

_get_agent_server_base_url(exposed_urls) ==
    LET i == FirstAgentServer(exposed_urls.items)
    IN  IF i = 0 THEN None
        ELSE replace_localhost_hostname_for_docker(exposed_urls.items[i].url)

\* Mutant: every location is taken for a plain one.
_get_agent_server_ws_url_AlwaysWs(exposed_urls, cid, session_api_key) ==
    LET i == FirstAgentServer(exposed_urls.items)
        url == replace_localhost_hostname_for_docker(exposed_urls.items[i].url)
        built == Concat(Concat(Str(<<"ws", "://">>), urlparse(url).netloc),
                        Concat(Str(<<"/sockets/events/">>), Str(cid)))
    IN  IF i = 0 THEN None
        ELSE IF Truthy(session_api_key)
        THEN Concat(built, Concat(Str(<<"?">>),
                                  urlencode("session_api_key", session_api_key)))
        ELSE built

\* Mutant: the credential is appended as it is, and whenever it is not None.
_get_agent_server_ws_url_RawKey(exposed_urls, cid, session_api_key) ==
    LET i == FirstAgentServer(exposed_urls.items)
        url == replace_localhost_hostname_for_docker(exposed_urls.items[i].url)
        parsed == urlparse(url)
        ws_scheme == IF parsed.scheme = "https" THEN "wss" ELSE "ws"
        built == Concat(Concat(Str(<<ws_scheme, "://">>), parsed.netloc),
                        Concat(Str(<<"/sockets/events/">>), Str(cid)))
    IN  IF i = 0 THEN None
        ELSE IF session_api_key # NoneStr
        THEN Concat(built, Str(<<"?", "session_api_key", "=", session_api_key>>))
        ELSE built

_get_agent_server_ws_url(exposed_urls, cid, session_api_key) ==
    LET i == FirstAgentServer(exposed_urls.items)
        url == replace_localhost_hostname_for_docker(exposed_urls.items[i].url)
        parsed == urlparse(url)
        ws_scheme == IF parsed.scheme = "https" THEN "wss" ELSE "ws"
        built == Concat(Concat(Str(<<ws_scheme, "://">>), parsed.netloc),
                        Concat(Str(<<"/sockets/events/">>), Str(cid)))
    IN  IF i = 0 THEN None
        ELSE IF Truthy(session_api_key)
        THEN Concat(built, Concat(Str(<<"?">>),
                                  urlencode("session_api_key", session_api_key)))
        ELSE built

\* Mutant: "sandbox is None or sandbox.exposed_urls is None", which lets an
\* empty list through.
NoUsableSandbox_IsNone(sb) ==
    \/ sb = None
    \/ sb.exposed_urls = None

\* "not sandbox or not sandbox.exposed_urls"
NoUsableSandbox(sb) ==
    \/ sb = None
    \/ sb.exposed_urls = None
    \/ sb.exposed_urls.items = <<>>

\* The services are read-only lookups.
get_app_conversation_info(uuid) ==
    IF uuid \in DOMAIN conversations THEN conversations[uuid] ELSE None

get_sandbox(sandbox_id) ==
    IF sandbox_id \in DOMAIN sandboxes THEN sandboxes[sandbox_id] ELSE None

\* --------------------------------------------------- the inbound connection
\* websocket.close(code) before the handshake is answered refuses the upgrade.
\* On an accepted connection it sends the close frame; when the browser is
\* already gone the call either does nothing or raises.
CloseResults == IF clientState = "disconnected" THEN {"ok", "raise"} ELSE {"ok"}

StateAfterClose == IF clientState = "disconnected" THEN "disconnected" ELSE "closed"

\* ---------------------------------------------- the streaming endpoints
Streaming == endpoint \in {"ws", "ws_runtime"}

\* Mutant: the two path parameters are not compared.
websocket_proxy_via_runtime_NoCheck ==
    /\ endpoint = "ws_runtime"
    /\ pc = "Route"
    /\ pc' = "Start"
    /\ UNCHANGED <<inputVars, conversation_uuid, app_conversation_info, sandbox,
                   ws_url, convLookups, sandboxLookups, connectAttempts, accepted,
                   clientState, closeCalls, connectFault, serverState, relayVars,
                   trafficVars, httpVars, additional_headers, pairVars, authVars,
                   sandboxSpecVars>>

\* Lines 399-415: the strings are compared; on a mismatch the connection is
\* closed, otherwise _websocket_proxy_impl is entered.
websocket_proxy_via_runtime ==
    /\ endpoint = "ws_runtime"
    /\ pc = "Route"
    /\ IF runtime_conversation_id # conversation_id
       THEN /\ closeCalls' = Append(closeCalls, WS_1008_POLICY_VIOLATION)
            /\ clientState' = StateAfterClose
            /\ pc' = "Closed"
       ELSE /\ pc' = "Start"
            /\ UNCHANGED <<closeCalls, clientState>>
    /\ UNCHANGED <<inputVars, conversation_uuid, app_conversation_info, sandbox,
                   ws_url, convLookups, sandboxLookups, connectAttempts, accepted,
                   connectFault, serverState, relayVars, trafficVars, httpVars,
                   additional_headers, pairVars, authVars, sandboxSpecVars>>

\* ------------------------------------------------- _websocket_proxy_impl
\* Mutant: the ValueError is swallowed and the handler goes on to the lookup.
Ws_ParseId_NoEarlyReturn ==
    /\ Streaming
    /\ pc = "Start"
    /\ conversation_uuid' = UUID(conversation_id)
    /\ pc' = "GetConversationInfo"
    /\ UNCHANGED <<inputVars, app_conversation_info, sandbox, ws_url, convLookups,
                   sandboxLookups, connectAttempts, accepted, clientState,
                   closeCalls, serverState, relayVars, trafficVars, httpVars,
                   connectFault, additional_headers, pairVars, authVars,
                   sandboxSpecVars>>

\* Lines 245-254: conversation_uuid = UUID(conversation_id)
Ws_ParseId ==
    /\ Streaming
    /\ pc = "Start"
    /\ conversation_uuid' = UUID(conversation_id)
    /\ IF conversation_uuid' = ValueError
       THEN /\ closeCalls' = Append(closeCalls, WS_1008_POLICY_VIOLATION)
            /\ clientState' = StateAfterClose
            /\ pc' = "Closed"
       ELSE /\ pc' = "GetConversationInfo"
            /\ UNCHANGED <<closeCalls, clientState>>
    /\ UNCHANGED <<inputVars, app_conversation_info, sandbox, ws_url, convLookups,
                   sandboxLookups, connectAttempts, accepted, serverState,
                   relayVars, trafficVars, httpVars, connectFault,
                   additional_headers, pairVars, authVars, sandboxSpecVars>>

\* Lines 256-266
Ws_GetConversationInfo ==
    /\ Streaming
    /\ pc = "GetConversationInfo"
    /\ convLookups' = convLookups + 1
    /\ app_conversation_info' = get_app_conversation_info(conversation_uuid)
    /\ IF app_conversation_info' = None
       THEN /\ closeCalls' = Append(closeCalls, WS_1008_POLICY_VIOLATION)
            /\ clientState' = StateAfterClose
            /\ pc' = "Closed"
       ELSE /\ pc' = "GetSandbox"
            /\ UNCHANGED <<closeCalls, clientState>>
    /\ UNCHANGED <<inputVars, conversation_uuid, sandbox, ws_url, sandboxLookups,
                   connectAttempts, accepted, serverState, relayVars, trafficVars,
                   httpVars, connectFault, additional_headers, pairVars, authVars,
                   sandboxSpecVars>>

\* Lines 268-288
Ws_GetSandbox ==
    /\ Streaming
    /\ pc = "GetSandbox"
    /\ sandboxLookups' = sandboxLookups + 1
    /\ sandbox' = get_sandbox(app_conversation_info.sandbox_id)
    /\ IF NoUsableSandbox(sandbox')
       THEN /\ closeCalls' = Append(closeCalls, WS_1013_TRY_AGAIN_LATER)
            /\ clientState' = StateAfterClose
            /\ pc' = "Closed"
            /\ UNCHANGED ws_url
       ELSE /\ ws_url' = _get_agent_server_ws_url(sandbox'.exposed_urls, conversation_id,
                                                  sandbox'.session_api_key)
            /\ IF ws_url' = None
               THEN /\ closeCalls' = Append(closeCalls, WS_1011_INTERNAL_ERROR)
                    /\ clientState' = StateAfterClose
                    /\ pc' = "Closed"
               ELSE /\ pc' = "Accept"
                    /\ UNCHANGED <<closeCalls, clientState>>
    /\ UNCHANGED <<inputVars, conversation_uuid, app_conversation_info,
                   convLookups, connectAttempts, accepted, serverState, relayVars,
                   trafficVars, httpVars, connectFault, additional_headers,
                   pairVars, authVars, sandboxSpecVars>>

\* Line 291: await websocket.accept()
Ws_Accept ==
    /\ Streaming
    /\ pc = "Accept"
    /\ accepted' = TRUE
    /\ clientState' = "open"
    /\ pc' = "Connect"
    /\ UNCHANGED <<inputVars, conversation_uuid, app_conversation_info, sandbox,
                   ws_url, convLookups, sandboxLookups, connectAttempts,
                   closeCalls, serverState, relayVars, trafficVars, httpVars,
                   connectFault, additional_headers, pairVars, authVars,
                   sandboxSpecVars>>

\* Lines 152-154: the headers _connect_to_agent_server gives to the connect.
ConnectHeaders(session_api_key) ==
    IF Truthy(session_api_key)
    THEN <<Header("X-Session-API-Key", <<session_api_key>>)>>
    ELSE <<>>

\* Lines 302-304 and 156-162: the handler enters websockets.connect(...) and
\* is suspended until the opening handshake succeeds or fails.
Ws_Connect ==
    /\ Streaming
    /\ pc = "Connect"
    /\ connectAttempts' = connectAttempts + 1
    /\ additional_headers' = Dict(ConnectHeaders(sandbox.session_api_key))
    /\ pc' = "Connecting"
    /\ UNCHANGED <<inputVars, conversation_uuid, app_conversation_info, sandbox,
                   ws_url, convLookups, sandboxLookups, accepted, clientState,
                   closeCalls, serverState, relayVars, trafficVars, httpVars,
                   connectFault, pairVars, authVars, sandboxSpecVars>>

\* Lines 305-317: the connection is open; both pump tasks are created and the
\* handler waits in asyncio.wait(..., return_when=FIRST_COMPLETED).
Ws_Connected ==
    /\ Streaming
    /\ pc = "Connecting"
    /\ serverState' = "open"
    /\ c2s' = Task("recv", "none", None)
    /\ s2c' = Task("recv", "none", None)
    /\ pc' = "Wait"
    /\ UNCHANGED <<inputVars, conversation_uuid, app_conversation_info, sandbox,
                   ws_url, convLookups, sandboxLookups, connectAttempts, accepted,
                   clientState, closeCalls, done, pending, cancelRequested,
                   trafficVars, httpVars, connectFault, additional_headers,
                   pairVars, authVars, sandboxSpecVars>>

\* Lines 327-332: except ConnectionRefusedError; the close is not guarded.
Ws_ConnectionRefused ==
    /\ Streaming
    /\ pc = "Connecting"
    /\ connectFault' = "ConnectionRefusedError"
    /\ closeCalls' = Append(closeCalls, WS_1013_TRY_AGAIN_LATER)
    /\ clientState' = StateAfterClose
    /\ \E r \in CloseResults :
          pc' = IF r = "raise" THEN "Raised" ELSE "Closed"
    /\ UNCHANGED <<inputVars, conversation_uuid, app_conversation_info, sandbox,
                   ws_url, convLookups, sandboxLookups, connectAttempts, accepted,
                   serverState, relayVars, trafficVars, httpVars,
                   additional_headers, pairVars, authVars, sandboxSpecVars>>

\* What websockets.connect raises besides ConnectionRefusedError: the opening
\* handshake timed out, the agent-server rejected the upgrade, the host was
\* unreachable.
OtherConnectFaults == {"TimeoutError", "InvalidStatus", "OSError"}

\* Lines 333-341: except Exception; a failing close is swallowed.
Ws_ConnectFault ==
    /\ Streaming
    /\ pc = "Connecting"
    /\ \E e \in OtherConnectFaults : connectFault' = e
    /\ closeCalls' = Append(closeCalls, WS_1011_INTERNAL_ERROR)
    /\ clientState' = StateAfterClose
    /\ pc' = "Closed"
    /\ UNCHANGED <<inputVars, conversation_uuid, app_conversation_info, sandbox,
                   ws_url, convLookups, sandboxLookups, connectAttempts, accepted,
                   serverState, relayVars, trafficVars, httpVars,
                   additional_headers, pairVars, authVars, sandboxSpecVars>>

\* ------------------------------------------------------------- the peers
Message(kind, n) == [kind |-> kind, n |-> n]

MessageKinds == {"text", "bytes"}

Terminal == pc \in {"Closed", "Raised", "Cancelled"}

\* The browser sends a text or a binary message.
Client_Send ==
    /\ Streaming
    /\ ~Terminal
    /\ clientState = "open"
    /\ nClientSent + nBackendSent < MaxMessages
    /\ \E kind \in MessageKinds :
          clientOut' = Append(clientOut, Message(kind, nClientSent + 1))
    /\ nClientSent' = nClientSent + 1
    /\ UNCHANGED <<inputVars, conversation_uuid, pc, app_conversation_info,
                   sandbox, ws_url, convLookups, sandboxLookups, connectAttempts,
                   accepted, clientState, closeCalls, serverState, relayVars,
                   serverIn, serverOut, clientIn, nBackendSent, httpVars,
                   connectFault, c2sRead, s2cRead, additional_headers, pairVars,
                   authVars, sandboxSpecVars>>

\* The browser goes away.
Client_Disconnect ==
    /\ Streaming
    /\ ~Terminal
    /\ clientState = "open"
    /\ clientState' = "disconnected"
    /\ UNCHANGED <<inputVars, conversation_uuid, pc, app_conversation_info,
                   sandbox, ws_url, convLookups, sandboxLookups, connectAttempts,
                   accepted, closeCalls, serverState, relayVars, trafficVars,
                   httpVars, connectFault, additional_headers, pairVars, authVars,
                   sandboxSpecVars>>

\* The agent-server sends a text or a binary message.
Backend_Send ==
    /\ Streaming
    /\ ~Terminal
    /\ serverState = "open"
    /\ nClientSent + nBackendSent < MaxMessages
    /\ \E kind \in MessageKinds :
          serverOut' = Append(serverOut, Message(kind, nBackendSent + 1))
    /\ nBackendSent' = nBackendSent + 1
    /\ UNCHANGED <<inputVars, conversation_uuid, pc, app_conversation_info,
                   sandbox, ws_url, convLookups, sandboxLookups, connectAttempts,
                   accepted, clientState, closeCalls, serverState, relayVars,
                   clientOut, serverIn, clientIn, nClientSent, httpVars,
                   connectFault, c2sRead, s2cRead, additional_headers, pairVars,
                   authVars, sandboxSpecVars>>

\* The agent-server closes its connection, or is found dead by the keep-alive.
Backend_Close ==
    /\ Streaming
    /\ ~Terminal
    /\ serverState = "open"
    /\ serverState' = "peer_closed"
    /\ UNCHANGED <<inputVars, conversation_uuid, pc, app_conversation_info,
                   sandbox, ws_url, convLookups, sandboxLookups, connectAttempts,
                   accepted, clientState, closeCalls, relayVars, trafficVars,
                   httpVars, connectFault, additional_headers, pairVars, authVars,
                   sandboxSpecVars>>

\* ------------------------------------------------------------- the pumps
Running(task) == task.pos \in {"recv", "send"}

Finished(task) == task.pos \in {"finished", "cancelled"}

\* Line 180: data = await client_ws.receive_text(). A binary message has no
\* "text", which raises into "except Exception"; a disconnect raises
\* WebSocketDisconnect.
C2S_Receive ==
    /\ c2s.pos = "recv"
    /\ "c2s" \notin cancelRequested
    /\ IF clientOut # <<>>
       THEN /\ clientOut' = Tail(clientOut)
            /\ c2sRead' = Append(c2sRead, Head(clientOut))
            /\ c2s' = IF Head(clientOut).kind = "text"
                      THEN Task("send", "none", Head(clientOut))
                      ELSE Task("finished", "error", None)
       ELSE /\ clientState = "disconnected"
            /\ c2s' = Task("finished", "disconnect", None)
            /\ UNCHANGED <<clientOut, c2sRead>>
    /\ UNCHANGED <<inputVars, conversation_uuid, pc, app_conversation_info,
                   sandbox, ws_url, convLookups, sandboxLookups, connectAttempts,
                   accepted, clientState, closeCalls, serverState, s2c, done,
                   pending, cancelRequested, serverIn, serverOut, clientIn,
                   nClientSent, nBackendSent, httpVars, connectFault, s2cRead,
                   additional_headers, pairVars, authVars, sandboxSpecVars>>

\* Mutant: the message is put before those already written.
C2S_Send_Prepend ==
    /\ c2s.pos = "send"
    /\ "c2s" \notin cancelRequested
    /\ IF serverState = "open"
       THEN /\ serverIn' = <<Message("text", c2s.data.n)>> \o serverIn
            /\ c2s' = Task("recv", "none", None)
       ELSE /\ c2s' = Task("finished", "error", None)
            /\ UNCHANGED serverIn
    /\ UNCHANGED <<inputVars, conversation_uuid, pc, app_conversation_info,
                   sandbox, ws_url, convLookups, sandboxLookups, connectAttempts,
                   accepted, clientState, closeCalls, serverState, s2c, done,
                   pending, cancelRequested, clientOut, serverOut, clientIn,
                   nClientSent, nBackendSent, httpVars, connectFault, c2sRead,
                   s2cRead, additional_headers, pairVars, authVars,
                   sandboxSpecVars>>

\* Line 181: await server_ws.send(data); data is a str and goes out as text.
C2S_Send ==
    /\ c2s.pos = "send"
    /\ "c2s" \notin cancelRequested
    /\ IF serverState = "open"
       THEN /\ serverIn' = Append(serverIn, Message("text", c2s.data.n))
            /\ c2s' = Task("recv", "none", None)
       ELSE /\ c2s' = Task("finished", "error", None)
            /\ UNCHANGED serverIn
    /\ UNCHANGED <<inputVars, conversation_uuid, pc, app_conversation_info,
                   sandbox, ws_url, convLookups, sandboxLookups, connectAttempts,
                   accepted, clientState, closeCalls, serverState, s2c, done,
                   pending, cancelRequested, clientOut, serverOut, clientIn,
                   nClientSent, nBackendSent, httpVars, connectFault, c2sRead,
                   s2cRead, additional_headers, pairVars, authVars,
                   sandboxSpecVars>>

\* Line 207: async for message in server_ws; the loop ends when the
\* connection is closed, by the agent-server or on this side.
S2C_Receive ==
    /\ s2c.pos = "recv"
    /\ "s2c" \notin cancelRequested
    /\ IF serverOut # <<>>
       THEN /\ serverOut' = Tail(serverOut)
            /\ s2cRead' = Append(s2cRead, Head(serverOut))
            /\ s2c' = Task("send", "none", Head(serverOut))
       ELSE /\ serverState \in {"peer_closed", "closed"}
            /\ s2c' = Task("finished", "disconnect", None)
            /\ UNCHANGED <<serverOut, s2cRead>>
    /\ UNCHANGED <<inputVars, conversation_uuid, pc, app_conversation_info,
                   sandbox, ws_url, convLookups, sandboxLookups, connectAttempts,
                   accepted, clientState, closeCalls, serverState, c2s, done,
                   pending, cancelRequested, clientOut, serverIn, clientIn,
                   nClientSent, nBackendSent, httpVars, connectFault, c2sRead,
                   additional_headers, pairVars, authVars, sandboxSpecVars>>

\* Lines 208-211: send_bytes for bytes, send_text otherwise.
S2C_Send ==
    /\ s2c.pos = "send"
    /\ "s2c" \notin cancelRequested
    /\ IF clientState = "open"
       THEN /\ clientIn' = Append(clientIn,
                                  IF s2c.data.kind = "bytes"
                                  THEN Message("bytes", s2c.data.n)
                                  ELSE Message("text", s2c.data.n))
            /\ s2c' = Task("recv", "none", None)
       ELSE /\ s2c' = Task("finished", "error", None)
            /\ UNCHANGED clientIn
    /\ UNCHANGED <<inputVars, conversation_uuid, pc, app_conversation_info,
                   sandbox, ws_url, convLookups, sandboxLookups, connectAttempts,
                   accepted, clientState, closeCalls, serverState, c2s, done,
                   pending, cancelRequested, clientOut, serverIn, serverOut,
                   nClientSent, nBackendSent, httpVars, connectFault, c2sRead,
                   s2cRead, additional_headers, pairVars, authVars,
                   sandboxSpecVars>>

\* Mutant: the pump catches BaseException, so the cancellation ends it like
\* any other error.
S2C_Cancelled_Swallowed ==
    /\ s2c.pos \in {"recv", "send"}
    /\ "s2c" \in cancelRequested
    /\ s2c' = [pos |-> "finished", exit |-> "error", data |-> None]
    /\ UNCHANGED <<inputVars, conversation_uuid, pc, app_conversation_info,
                   sandbox, ws_url, convLookups, sandboxLookups, connectAttempts,
                   accepted, clientState, closeCalls, serverState, c2s, done,
                   pending, cancelRequested, trafficVars, httpVars, connectFault,
                   additional_headers, pairVars, authVars, sandboxSpecVars>>

\* Mutant: the pump catches the cancellation and goes back to reading.
C2S_Cancelled_Resumes ==
    /\ Running(c2s)
    /\ "c2s" \in cancelRequested
    /\ c2s' = Task("recv", "none", None)
    /\ cancelRequested' = cancelRequested \ {"c2s"}
    /\ UNCHANGED <<inputVars, conversation_uuid, pc, app_conversation_info,
                   sandbox, ws_url, convLookups, sandboxLookups, connectAttempts,
                   accepted, clientState, closeCalls, serverState, s2c, done,
                   pending, trafficVars, httpVars, connectFault,
                   additional_headers, pairVars, authVars, sandboxSpecVars>>

\* A task on which cancel() was called gets CancelledError at the await it is
\* suspended in; neither pump catches it (it is no Exception).
C2S_Cancelled ==
    /\ Running(c2s)
    /\ "c2s" \in cancelRequested
    /\ c2s' = Task("cancelled", "cancelled", None)
    /\ UNCHANGED <<inputVars, conversation_uuid, pc, app_conversation_info,
                   sandbox, ws_url, convLookups, sandboxLookups, connectAttempts,
                   accepted, clientState, closeCalls, serverState, s2c, done,
                   pending, cancelRequested, trafficVars, httpVars, connectFault,
                   additional_headers, pairVars, authVars, sandboxSpecVars>>

S2C_Cancelled ==
    /\ Running(s2c)
    /\ "s2c" \in cancelRequested
    /\ s2c' = Task("cancelled", "cancelled", None)
    /\ UNCHANGED <<inputVars, conversation_uuid, pc, app_conversation_info,
                   sandbox, ws_url, convLookups, sandboxLookups, connectAttempts,
                   accepted, clientState, closeCalls, serverState, c2s, done,
                   pending, cancelRequested, trafficVars, httpVars, connectFault,
                   additional_headers, pairVars, authVars, sandboxSpecVars>>

\* ------------------------------------------- _websocket_proxy_impl, again
FinishedTasks ==
    {t \in {"c2s", "s2c"} : Finished(IF t = "c2s" THEN c2s ELSE s2c)}

\* Mutant: only the backend-to-client pump is ever cancelled.
Ws_WaitReturns_OneDirection ==
    /\ Streaming
    /\ pc = "Wait"
    /\ FinishedTasks # {}
    /\ done' = FinishedTasks
    /\ pending' = {"c2s", "s2c"} \ FinishedTasks
    /\ cancelRequested' = pending' \cap {"s2c"}
    /\ pc' = IF pending' = {} THEN "ExitContext" ELSE "AwaitCancelled"
    /\ UNCHANGED <<inputVars, conversation_uuid, app_conversation_info, sandbox,
                   ws_url, convLookups, sandboxLookups, connectAttempts, accepted,
                   clientState, closeCalls, serverState, c2s, s2c, trafficVars,
                   httpVars, connectFault, additional_headers, pairVars, authVars,
                   sandboxSpecVars>>

\* Lines 314-321: asyncio.wait returns once a task is finished, with every
\* task finished by then in done; task.cancel() on the pending one.
Ws_WaitReturns ==
    /\ Streaming
    /\ pc = "Wait"
    /\ FinishedTasks # {}
    /\ done' = FinishedTasks
    /\ pending' = {"c2s", "s2c"} \ FinishedTasks
    /\ cancelRequested' = pending'
    /\ pc' = IF pending' = {} THEN "ExitContext" ELSE "AwaitCancelled"
    /\ UNCHANGED <<inputVars, conversation_uuid, app_conversation_info, sandbox,
                   ws_url, convLookups, sandboxLookups, connectAttempts, accepted,
                   clientState, closeCalls, serverState, c2s, s2c, trafficVars,
                   httpVars, connectFault, additional_headers, pairVars, authVars,
                   sandboxSpecVars>>

\* Mutant: the cancelled task is not awaited.
Ws_AwaitCancelled_NoWait ==
    /\ Streaming
    /\ pc = "AwaitCancelled"
    /\ pc' = "ExitContext"
    /\ UNCHANGED <<inputVars, conversation_uuid, app_conversation_info, sandbox,
                   ws_url, convLookups, sandboxLookups, connectAttempts, accepted,
                   clientState, closeCalls, serverState, relayVars, trafficVars,
                   httpVars, connectFault, additional_headers, pairVars, authVars,
                   sandboxSpecVars>>

\* Lines 322-325: await task, until the cancelled task is finished.
Ws_AwaitCancelled ==
    /\ Streaming
    /\ pc = "AwaitCancelled"
    /\ pending \subseteq FinishedTasks
    /\ pc' = "ExitContext"
    /\ UNCHANGED <<inputVars, conversation_uuid, app_conversation_info, sandbox,
                   ws_url, convLookups, sandboxLookups, connectAttempts, accepted,
                   clientState, closeCalls, serverState, relayVars, trafficVars,
                   httpVars, connectFault, additional_headers, pairVars, authVars,
                   sandboxSpecVars>>

\* Lines 302-304 and 343-346: leaving "async with" closes the connection to
\* the agent-server; the handler logs and returns.
Ws_ExitContext ==
    /\ Streaming
    /\ pc = "ExitContext"
    /\ serverState' = "closed"
    /\ pc' = "Closed"
    /\ UNCHANGED <<inputVars, conversation_uuid, app_conversation_info, sandbox,
                   ws_url, convLookups, sandboxLookups, connectAttempts, accepted,
                   clientState, closeCalls, relayVars, trafficVars, httpVars,
                   connectFault, additional_headers, pairVars, authVars,
                   sandboxSpecVars>>

\* Lines 302-317: the handler task is cancelled from outside (the server
\* shuts down, the request is aborted) while it is suspended in asyncio.wait.
\* CancelledError is raised there; asyncio.wait leaves the tasks it was given
\* alone, "async with" closes the connection to the agent-server on the way
\* out, and no except clause of the handler catches a CancelledError, which
\* leaves the handler. Nothing on that way cancels the pump tasks.
Ws_Cancelled ==
    /\ Streaming
    /\ pc = "Wait"
    /\ serverState' = "closed"
    /\ pc' = "Cancelled"
    /\ UNCHANGED <<inputVars, conversation_uuid, app_conversation_info, sandbox,
                   ws_url, convLookups, sandboxLookups, connectAttempts, accepted,
                   clientState, closeCalls, relayVars, trafficVars, httpVars,
                   connectFault, additional_headers, pairVars, authVars,
                   sandboxSpecVars>>

\* ------------------------------------------------------------ http_proxy
_HOP_BY_HOP_HEADERS ==
    {"connection", "keep-alive", "proxy-authenticate", "proxy-authorization",
     "te", "trailers", "transfer-encoding", "upgrade", "host"}

DictIndex(d, key) ==
    IF \E i \in 1..Len(d) : d[i].name = key
    THEN CHOOSE i \in 1..Len(d) : d[i].name = key
    ELSE 0

\* d[key] = value
DictSet(d, key, value) ==
    IF DictIndex(d, key) = 0
    THEN Append(d, Header(key, value))
    ELSE [d EXCEPT ![DictIndex(d, key)].value = value]

\* Line 542, request.headers.items(): every header of the request, in order,
\* under its lower-case name.
request_headers_items(headers) ==
    [i \in 1..Len(headers) |-> Header(lower(headers[i].name), headers[i].value)]

\* Line 565, response.headers.items() of httpx: one item per lower-case name,
\* the values of a repeated name joined by ", ".
RECURSIVE response_headers_items(_, _)
response_headers_items(headers, d) ==
    IF headers = <<>> THEN d
    ELSE LET key == lower(Head(headers).name)
             i == DictIndex(d, key)
         IN  response_headers_items(
                 Tail(headers),
                 IF i = 0
                 THEN Append(d, Header(key, Head(headers).value))
                 ELSE [d EXCEPT ![i].value = @ \o <<", ">> \o Head(headers).value])

\* Lines 541-544 and 564-567: the loop that fills a dict with the items whose
\* lower-case name is not in the block list.
RECURSIVE CopyHeaders(_, _)
CopyHeaders(items, d) ==
    IF items = <<>> THEN d
    ELSE CopyHeaders(Tail(items),
                     IF lower(Head(items).name) \notin _HOP_BY_HOP_HEADERS
                     THEN DictSet(d, Head(items).name, Head(items).value)
                     ELSE d)

\* Mutant: the credential is not added.
ForwardHeaders_NoInject(headers, session_api_key) ==
    CopyHeaders(request_headers_items(headers), <<>>)

\* Lines 540-548
ForwardHeaders(headers, session_api_key) ==
    LET copied == CopyHeaders(request_headers_items(headers), <<>>)
    IN  IF Truthy(session_api_key)
        THEN DictSet(copied, "X-Session-API-Key", <<session_api_key>>)
        ELSE copied

\* Mutant: the base URL is used as it is.
TargetUrl_NoStrip(base, path, query) ==
    IF query.text # <<>>
    THEN Concat(Concat(base, Concat(Str(<<"/">>), path)), Concat(Str(<<"?">>), query))
    ELSE Concat(base, Concat(Str(<<"/">>), path))

\* Lines 536-538
TargetUrl(base, path, query) ==
    IF query.text # <<>>
    THEN Concat(Concat(rstrip(base), Concat(Str(<<"/">>), path)),
                Concat(Str(<<"?">>), query))
    ELSE Concat(rstrip(base), Concat(Str(<<"/">>), path))

\* A starlette Response; the headers are the dict it was given.
ResponseWith(status, text, headers) ==
    [status_code |-> status, content |-> text, headers |-> headers]

Response(status, text) == ResponseWith(status, text, <<>>)

NotFoundResponse == Response(404, "Conversation not found or sandbox not running")

\* What the agent-server may answer: status, body and headers on the wire.
BackendResponses ==
    { ResponseWith(200, "ok",
                   <<Header("Content-Type", <<"application/json">>),
                     Header("Connection", <<"keep-alive">>),
                     Header("Transfer-Encoding", <<"chunked">>)>>),
      ResponseWith(404, "no such file", <<Header("content-type", <<"text/plain">>)>>),
      ResponseWith(200, "ok",
                   <<Header("Set-Cookie", <<"a=1">>), Header("set-cookie", <<"b=2">>)>>) }

\* The exceptions httpx_client.request raises, and the classes of httpx they
\* are instances of.
TimeoutException == {"ConnectTimeout", "ReadTimeout"}

ConnectError == {"ConnectError"}

RequestFaults == TimeoutException \cup ConnectError \cup {"ReadError", "RemoteProtocolError"}

Returned(result) == [raised |-> "", result |-> result]

Raised(exception) == [raised |-> exception, result |-> None]

Outcomes == {Returned(r) : r \in BackendResponses} \cup {Raised(e) : e \in RequestFaults}

\* Mutant: a timeout is answered like a refused connection.
FaultResponse_TimeoutAs503(exception) ==
    IF exception \in TimeoutException \cup ConnectError
    THEN Response(503, "Agent server unavailable")
    ELSE Response(500, "Internal proxy error")

\* Mutant: the answer to an unexpected fault quotes the fault.
FaultResponse_QuotesFault(exception) ==
    IF exception \in TimeoutException THEN Response(504, "Gateway timeout")
    ELSE IF exception \in ConnectError THEN Response(503, "Agent server unavailable")
    ELSE Response(500, exception)

\* Lines 580-606: the except clauses, in their order.
FaultResponse(exception) ==
    IF exception \in TimeoutException THEN Response(504, "Gateway timeout")
    ELSE IF exception \in ConnectError THEN Response(503, "Agent server unavailable")
    ELSE Response(500, "Internal proxy error")

wsVars == <<ws_url, connectAttempts, additional_headers, accepted, clientState,
            closeCalls, connectFault, serverState, relayVars, trafficVars>>

\* Lines 449-452, then 513-521: _get_sandbox_for_conversation returns
\* (None, None) and http_proxy answers 404.
Http_ParseId ==
    /\ endpoint = "http"
    /\ pc = "Start"
    /\ conversation_uuid' = UUID(conversation_id)
    /\ IF conversation_uuid' = ValueError
       THEN /\ response' = NotFoundResponse
            /\ pc' = "Responded"
       ELSE /\ pc' = "GetConversationInfo"
            /\ UNCHANGED response
    /\ UNCHANGED <<inputVars, app_conversation_info, sandbox, convLookups,
                   sandboxLookups, wsVars, request, base_url, target_url,
                   forward_headers, httpRequests, outcome, httpx_request, pairVars,
                   authVars, sandboxSpecVars>>

\* Mutant: a missing conversation is answered like a missing agent server.
Http_GetConversationInfo_503 ==
    /\ endpoint = "http"
    /\ pc = "GetConversationInfo"
    /\ convLookups' = convLookups + 1
    /\ app_conversation_info' = get_app_conversation_info(conversation_uuid)
    /\ IF app_conversation_info' = None
       THEN /\ response' = Response(503, "Agent server not available")
            /\ pc' = "Responded"
       ELSE /\ pc' = "GetSandbox"
            /\ UNCHANGED response
    /\ UNCHANGED <<inputVars, conversation_uuid, sandbox, sandboxLookups, wsVars,
                   request, base_url, target_url, forward_headers, httpRequests,
                   outcome, httpx_request, pairVars, authVars, sandboxSpecVars>>

\* Lines 454-458, then 513-521
Http_GetConversationInfo ==
    /\ endpoint = "http"
    /\ pc = "GetConversationInfo"
    /\ convLookups' = convLookups + 1
    /\ app_conversation_info' = get_app_conversation_info(conversation_uuid)
    /\ IF app_conversation_info' = None
       THEN /\ response' = NotFoundResponse
            /\ pc' = "Responded"
       ELSE /\ pc' = "GetSandbox"
            /\ UNCHANGED response
    /\ UNCHANGED <<inputVars, conversation_uuid, sandbox, sandboxLookups, wsVars,
                   request, base_url, target_url, forward_headers, httpRequests,
                   outcome, httpx_request, pairVars, authVars, sandboxSpecVars>>

\* Lines 460-464, then 513-548: the sandbox handed to http_proxy is None when
\* the lookup found nothing usable; otherwise the target URL and the headers
\* of the outbound request are built from the path, the query string and the
\* headers of the inbound request.
Http_GetSandbox ==
    /\ endpoint = "http"
    /\ pc = "GetSandbox"
    /\ sandboxLookups' = sandboxLookups + 1
    /\ LET found == get_sandbox(app_conversation_info.sandbox_id)
       IN  IF NoUsableSandbox(found)
           THEN /\ sandbox' = None
                /\ response' = NotFoundResponse
                /\ pc' = "Responded"
                /\ UNCHANGED <<request, base_url, target_url, forward_headers>>
           ELSE /\ sandbox' = found
                /\ base_url' = _get_agent_server_base_url(found.exposed_urls)
                /\ IF base_url' = None \/ base_url'.text = <<>>
                   THEN /\ response' = Response(503, "Agent server not available")
                        /\ pc' = "Responded"
                        /\ UNCHANGED <<request, target_url, forward_headers>>
                   ELSE /\ request' \in Requests
                        /\ target_url' =
                               TargetUrl(base_url', request'.path, request'.query)
                        /\ forward_headers' =
                               Dict(ForwardHeaders(request'.headers,
                                                   found.session_api_key))
                        /\ pc' = "Request"
                        /\ UNCHANGED response
    /\ UNCHANGED <<inputVars, conversation_uuid, app_conversation_info,
                   convLookups, wsVars, httpRequests, outcome, httpx_request,
                   pairVars, authVars, sandboxSpecVars>>

\* Mutant: the body is handed on as it is, empty or not.
Content_Always(body) == body

\* Line 559: content=body if body else None
Content(body) == IF body.bytes # "" THEN body ELSE None

\* Mutant: a failed call is made again.
Http_Request_RetryOnFault ==
    /\ endpoint = "http"
    /\ pc = "Request"
    /\ httpRequests' = httpRequests + 1
    /\ httpx_request' = [method |-> request.method, url |-> target_url,
                         headers |-> forward_headers,
                         content |-> Content(request.body)]
    /\ outcome' \in Outcomes
    /\ IF outcome'.raised = ""
       THEN /\ response' =
                   ResponseWith(outcome'.result.status_code, outcome'.result.content,
                                CopyHeaders(response_headers_items(
                                                outcome'.result.headers, <<>>),
                                            <<>>))
            /\ pc' = "Responded"
       ELSE /\ pc' = "Request"
            /\ UNCHANGED response
    /\ UNCHANGED <<inputVars, conversation_uuid, app_conversation_info, sandbox,
                   convLookups, sandboxLookups, wsVars, request, base_url,
                   target_url, forward_headers, pairVars, authVars,
                   sandboxSpecVars>>

\* Lines 550-606: one outbound call; its result, with the headers filtered,
\* or the answer to its failure becomes the Response.
Http_Request ==
    /\ endpoint = "http"
    /\ pc = "Request"
    /\ httpRequests' = httpRequests + 1
    /\ httpx_request' = [method |-> request.method, url |-> target_url,
                         headers |-> forward_headers,
                         content |-> Content(request.body)]
    /\ outcome' \in Outcomes
    /\ response' =
           IF outcome'.raised = ""
           THEN ResponseWith(outcome'.result.status_code, outcome'.result.content,
                             CopyHeaders(response_headers_items(outcome'.result.headers,
                                                                <<>>),
                                         <<>>))
           ELSE FaultResponse(outcome'.raised)
    /\ pc' = "Responded"
    /\ UNCHANGED <<inputVars, conversation_uuid, app_conversation_info, sandbox,
                   convLookups, sandboxLookups, wsVars, request, base_url,
                   target_url, forward_headers, pairVars, authVars,
                   sandboxSpecVars>>

\* ------------------------------------------------------- specifications
ImplStep ==
    \/ Ws_ParseId
    \/ Ws_GetConversationInfo
    \/ Ws_GetSandbox
    \/ Ws_Accept
    \/ Ws_Connect
    \/ Ws_Connected
    \/ Ws_ConnectionRefused
    \/ Ws_ConnectFault
    \/ Ws_WaitReturns
    \/ Ws_AwaitCancelled
    \/ Ws_ExitContext

HandlerStep == websocket_proxy_via_runtime \/ ImplStep

PumpStep ==
    \/ C2S_Receive
    \/ C2S_Send
    \/ S2C_Receive
    \/ S2C_Send
    \/ C2S_Cancelled
    \/ S2C_Cancelled

PeerStep ==
    \/ Client_Send
    \/ Client_Disconnect
    \/ Backend_Send
    \/ Backend_Close

HttpStep ==
    \/ Http_ParseId
    \/ Http_GetConversationInfo
    \/ Http_GetSandbox
    \/ Http_Request

Next == HandlerStep \/ PumpStep \/ PeerStep \/ HttpStep

Spec == Init /\ [][Next]_vars

\* One session of /sockets/events/{id}, the proxy not running in a container
\* (the rewriting of localhost has no part in the scheduling): the event loop
\* runs every coroutine that can run; the peers owe nothing.
SessionInit == Init /\ endpoint = "ws" /\ ~inDocker

SessionNext == ImplStep \/ PumpStep \/ PeerStep

FairSpec ==
    /\ SessionInit
    /\ [][SessionNext]_vars
    /\ WF_vars(ImplStep)
    /\ WF_vars(PumpStep)

\* The same, with the handler of a streaming session open to cancellation
\* from outside.
AbortNext == Next \/ Ws_Cancelled

AbortSpec == Init /\ [][AbortNext]_vars

\* The URL builder on its own: _get_agent_server_ws_url called once, on any
\* list of exposed URLs, any conversation id and any credential.
BuilderExposedUrlLists ==
    { List(<<>>),
      List(<<ExposedUrl(VSCODE, Url("http", "localhost", "8080"))>>),
      List(<<ExposedUrl(AGENT_SERVER, Url("http", "localhost", "33545"))>>),
      List(<<ExposedUrl(VSCODE, Url("http", "localhost", "8080")),
             ExposedUrl(AGENT_SERVER, UrlSlash("https", "agent.internal", "443"))>>),
      List(<<ExposedUrl(AGENT_SERVER, Url("https", "localhost", "8443")),
             ExposedUrl(AGENT_SERVER, Url("http", "10.0.0.5", "8000"))>>) }

BuilderSessionApiKeys == {NoneStr, "", "test-api-key", "k+/ 1"}

BuilderInit ==
    /\ endpoint = "ws"
    /\ conversation_id \in ConversationIds
    /\ runtime_conversation_id = <<>>
    /\ conversations = [u \in {KnownUUID} |-> None]
    /\ sandboxes = [id \in SandboxIds |-> None]
    /\ inDocker \in BOOLEAN
    /\ pc = "Call"
    /\ conversation_uuid = <<>>
    /\ app_conversation_info = None
    /\ sandbox \in [exposed_urls : BuilderExposedUrlLists,
                    session_api_key : BuilderSessionApiKeys]
    /\ ws_url = None
    /\ convLookups = 0
    /\ sandboxLookups = 0
    /\ connectAttempts = 0
    /\ additional_headers = None
    /\ accepted = FALSE
    /\ clientState = "connecting"
    /\ closeCalls = <<>>
    /\ connectFault = "none"
    /\ serverState = "none"
    /\ c2s = NoTask
    /\ s2c = NoTask
    /\ done = {}
    /\ pending = {}
    /\ cancelRequested = {}
    /\ clientOut = <<>>
    /\ serverIn = <<>>
    /\ serverOut = <<>>
    /\ clientIn = <<>>
    /\ c2sRead = <<>>
    /\ s2cRead = <<>>
    /\ nClientSent = 0
    /\ nBackendSent = 0
    /\ request = None
    /\ base_url = None
    /\ target_url = None
    /\ forward_headers = None
    /\ httpRequests = 0
    /\ httpx_request = None
    /\ outcome = None
    /\ response = None
    /\ PairIdle
    /\ AuthIdle
    /\ SandboxSpecIdle

\* Lines 106-134, called as in lines 278-280.
Call_get_agent_server_ws_url ==
    /\ pc = "Call"
    /\ ws_url' = _get_agent_server_ws_url(sandbox.exposed_urls, conversation_id,
                                          sandbox.session_api_key)
    /\ pc' = "Returned"
    /\ UNCHANGED <<inputVars, conversation_uuid, app_conversation_info, sandbox,
                   convLookups, sandboxLookups, connectAttempts, accepted,
                   clientState, closeCalls, connectFault, serverState, relayVars,
                   trafficVars, httpVars, additional_headers, pairVars, authVars,
                   sandboxSpecVars>>

BuilderNext == Call_get_agent_server_ws_url

BuilderSpec == BuilderInit /\ [][BuilderNext]_vars

\* ------------------------------------------------ two sessions side by side
\* Every variable of the single call, in one tuple.
handlerVars == <<inputVars, pc, conversation_uuid, app_conversation_info, sandbox,
                 convLookups, sandboxLookups, wsVars, httpVars>>

\* No single call is under observation.
HandlerIdle ==
    /\ endpoint = "ws"
    /\ conversation_id = IdHex
    /\ runtime_conversation_id = <<>>
    /\ conversations = [u \in {KnownUUID} |-> None]
    /\ sandboxes = [id \in SandboxIds |-> None]
    /\ inDocker = FALSE
    /\ pc = "Idle"
    /\ conversation_uuid = <<>>
    /\ app_conversation_info = None
    /\ sandbox = None
    /\ ws_url = None
    /\ convLookups = 0
    /\ sandboxLookups = 0
    /\ connectAttempts = 0
    /\ additional_headers = None
    /\ accepted = FALSE
    /\ clientState = "connecting"
    /\ closeCalls = <<>>
    /\ connectFault = "none"
    /\ serverState = "none"
    /\ c2s = NoTask
    /\ s2c = NoTask
    /\ done = {}
    /\ pending = {}
    /\ cancelRequested = {}
    /\ clientOut = <<>>
    /\ serverIn = <<>>
    /\ serverOut = <<>>
    /\ clientIn = <<>>
    /\ c2sRead = <<>>
    /\ s2cRead = <<>>
    /\ nClientSent = 0
    /\ nBackendSent = 0
    /\ request = None
    /\ base_url = None
    /\ target_url = None
    /\ forward_headers = None
    /\ httpRequests = 0
    /\ httpx_request = None
    /\ outcome = None
    /\ response = None

\* Messages sent by the peers of both sessions together.
MaxPairMessages == 2

SessionIds == {"A", "B"}

PumpNames == {"c2s", "s2c"}

\* The peers of the pair send text messages; what a binary message does to a
\* session is the same in each session.
PairKinds == {"text"}

\* Lines 291-304: the frame of one call of _websocket_proxy_impl after
\* websocket.accept(): its own inbound connection, its own connection to the
\* agent-server (not yet open), its own two tasks.
NewSession ==
    [pc |-> "Connecting", clientState |-> "open", serverState |-> "none",
     c2s |-> NoTask, s2c |-> NoTask, done |-> {}, pending |-> {},
     cancelRequested |-> {}, clientOut |-> <<>>, serverIn |-> <<>>,
     serverOut |-> <<>>, clientIn |-> <<>>, nSent |-> 0]

\* A message, marked with the connection it came in on.
PairMessage(kind, s, side) == [kind |-> kind, session |-> s, side |-> side]

PairSent == sessions["A"].nSent + sessions["B"].nSent

PairFinished(s) == {t \in PumpNames : Finished(sessions[s][t])}

PairInit ==
    /\ HandlerIdle
    /\ AuthIdle
    /\ SandboxSpecIdle
    /\ sessions = [s \in SessionIds |-> NewSession]

\* Lines 302-317 in session s.
Pair_Connected(s) ==
    /\ sessions[s].pc = "Connecting"
    /\ sessions' = [sessions EXCEPT ![s].serverState = "open",
                                    ![s].c2s = Task("recv", "none", None),
                                    ![s].s2c = Task("recv", "none", None),
                                    ![s].pc = "Wait"]
    /\ UNCHANGED <<handlerVars, authVars, sandboxSpecVars>>

\* The browser of session s sends a message.
Pair_Client_Send(s) ==
    /\ sessions[s].pc # "Closed"
    /\ sessions[s].clientState = "open"
    /\ PairSent < MaxPairMessages
    /\ \E kind \in PairKinds :
          sessions' = [sessions EXCEPT
                           ![s].clientOut = Append(@, PairMessage(kind, s, "client")),
                           ![s].nSent = @ + 1]
    /\ UNCHANGED <<handlerVars, authVars, sandboxSpecVars>>

\* The browser of session s goes away.
Pair_Client_Disconnect(s) ==
    /\ sessions[s].pc # "Closed"
    /\ sessions[s].clientState = "open"
    /\ sessions' = [sessions EXCEPT ![s].clientState = "disconnected"]
    /\ UNCHANGED <<handlerVars, authVars, sandboxSpecVars>>

\* The agent-server of session s sends a message.
Pair_Backend_Send(s) ==
    /\ sessions[s].pc # "Closed"
    /\ sessions[s].serverState = "open"
    /\ PairSent < MaxPairMessages
    /\ \E kind \in PairKinds :
          sessions' = [sessions EXCEPT
                           ![s].serverOut = Append(@, PairMessage(kind, s, "backend")),
                           ![s].nSent = @ + 1]
    /\ UNCHANGED <<handlerVars, authVars, sandboxSpecVars>>

\* The agent-server of session s closes its connection.
Pair_Backend_Close(s) ==
    /\ sessions[s].pc # "Closed"
    /\ sessions[s].serverState = "open"
    /\ sessions' = [sessions EXCEPT ![s].serverState = "peer_closed"]
    /\ UNCHANGED <<handlerVars, authVars, sandboxSpecVars>>

\* Line 180 in session s: client_ws is the connection of this call.
Pair_C2S_Receive(s) ==
    /\ sessions[s].c2s.pos = "recv"
    /\ "c2s" \notin sessions[s].cancelRequested
    /\ IF sessions[s].clientOut # <<>>
       THEN sessions' =
                [sessions EXCEPT
                     ![s].clientOut = Tail(@),
                     ![s].c2s = IF Head(sessions[s].clientOut).kind = "text"
                                THEN Task("send", "none", Head(sessions[s].clientOut))
                                ELSE Task("finished", "error", None)]
       ELSE /\ sessions[s].clientState = "disconnected"
            /\ sessions' = [sessions EXCEPT
                                ![s].c2s = Task("finished", "disconnect", None)]
    /\ UNCHANGED <<handlerVars, authVars, sandboxSpecVars>>

\* Mutant: the message goes out on the connection of the other session.
Pair_C2S_Send_SharedConnection(s) ==
    /\ sessions[s].c2s.pos = "send"
    /\ "c2s" \notin sessions[s].cancelRequested
    /\ \E o \in SessionIds \ {s} :
          sessions' = [sessions EXCEPT
                           ![o].serverIn = Append(@, sessions[s].c2s.data),
                           ![s].c2s = Task("recv", "none", None)]
    /\ UNCHANGED <<handlerVars, authVars, sandboxSpecVars>>

\* Line 181 in session s: server_ws is the connection this call opened.
Pair_C2S_Send(s) ==
    /\ sessions[s].c2s.pos = "send"
    /\ "c2s" \notin sessions[s].cancelRequested
    /\ IF sessions[s].serverState = "open"
       THEN sessions' =
                [sessions EXCEPT
                     ![s].serverIn = Append(@, [sessions[s].c2s.data
                                                    EXCEPT !.kind = "text"]),
                     ![s].c2s = Task("recv", "none", None)]
       ELSE sessions' = [sessions EXCEPT ![s].c2s = Task("finished", "error", None)]
    /\ UNCHANGED <<handlerVars, authVars, sandboxSpecVars>>

\* Line 207 in session s.
Pair_S2C_Receive(s) ==
    /\ sessions[s].s2c.pos = "recv"
    /\ "s2c" \notin sessions[s].cancelRequested
    /\ IF sessions[s].serverOut # <<>>
       THEN sessions' =
                [sessions EXCEPT
                     ![s].serverOut = Tail(@),
                     ![s].s2c = Task("send", "none", Head(sessions[s].serverOut))]
       ELSE /\ sessions[s].serverState \in {"peer_closed", "closed"}
            /\ sessions' = [sessions EXCEPT
                                ![s].s2c = Task("finished", "disconnect", None)]
    /\ UNCHANGED <<handlerVars, authVars, sandboxSpecVars>>

\* Lines 208-211 in session s.
Pair_S2C_Send(s) ==
    /\ sessions[s].s2c.pos = "send"
    /\ "s2c" \notin sessions[s].cancelRequested
    /\ IF sessions[s].clientState = "open"
       THEN sessions' =
                [sessions EXCEPT
                     ![s].clientIn = Append(@, sessions[s].s2c.data),
                     ![s].s2c = Task("recv", "none", None)]
       ELSE sessions' = [sessions EXCEPT ![s].s2c = Task("finished", "error", None)]
    /\ UNCHANGED <<handlerVars, authVars, sandboxSpecVars>>

\* The cancelled pump t of session s ends at its await.
Pair_Cancelled(s, t) ==
    /\ Running(sessions[s][t])
    /\ t \in sessions[s].cancelRequested
    /\ sessions' = [sessions EXCEPT ![s][t] = Task("cancelled", "cancelled", None)]
    /\ UNCHANGED <<handlerVars, authVars, sandboxSpecVars>>

\* Mutant: when one session's wait returns, the pumps of every session that
\* are still running are cancelled.
Pair_WaitReturns_CancelsAll(s) ==
    /\ sessions[s].pc = "Wait"
    /\ PairFinished(s) # {}
    /\ sessions' =
           [o \in SessionIds |->
               IF o = s
               THEN [sessions[s] EXCEPT
                         !.done = PairFinished(s),
                         !.pending = PumpNames \ PairFinished(s),
                         !.cancelRequested = PumpNames \ PairFinished(s),
                         !.pc = IF PumpNames \ PairFinished(s) = {}
                                THEN "ExitContext" ELSE "AwaitCancelled"]
               ELSE [sessions[o] EXCEPT
                         !.cancelRequested =
                             {t \in PumpNames : Running(sessions[o][t])}]]
    /\ UNCHANGED <<handlerVars, authVars, sandboxSpecVars>>

\* Lines 314-321 in session s: done and pending are the tasks this call
\* created, and task.cancel() is called on those of them that are pending.
Pair_WaitReturns(s) ==
    /\ sessions[s].pc = "Wait"
    /\ PairFinished(s) # {}
    /\ sessions' =
           [sessions EXCEPT
                ![s].done = PairFinished(s),
                ![s].pending = PumpNames \ PairFinished(s),
                ![s].cancelRequested = PumpNames \ PairFinished(s),
                ![s].pc = IF PumpNames \ PairFinished(s) = {}
                          THEN "ExitContext" ELSE "AwaitCancelled"]
    /\ UNCHANGED <<handlerVars, authVars, sandboxSpecVars>>

\* Lines 322-325 in session s.
Pair_AwaitCancelled(s) ==
    /\ sessions[s].pc = "AwaitCancelled"
    /\ sessions[s].pending \subseteq PairFinished(s)
    /\ sessions' = [sessions EXCEPT ![s].pc = "ExitContext"]
    /\ UNCHANGED <<handlerVars, authVars, sandboxSpecVars>>

\* Lines 302-304 and 343-346 in session s: leaving "async with" closes the
\* connection this call opened.
Pair_ExitContext(s) ==
    /\ sessions[s].pc = "ExitContext"
    /\ sessions' = [sessions EXCEPT ![s].serverState = "closed",
                                    ![s].pc = "Closed"]
    /\ UNCHANGED <<handlerVars, authVars, sandboxSpecVars>>

PairNext ==
    \E s \in SessionIds :
        \/ Pair_Connected(s)
        \/ Pair_Client_Send(s)
        \/ Pair_Client_Disconnect(s)
        \/ Pair_Backend_Send(s)
        \/ Pair_Backend_Close(s)
        \/ Pair_C2S_Receive(s)
        \/ Pair_C2S_Send(s)
        \/ Pair_S2C_Receive(s)
        \/ Pair_S2C_Send(s)
        \/ \E t \in PumpNames : Pair_Cancelled(s, t)
        \/ Pair_WaitReturns(s)
        \/ Pair_AwaitCancelled(s)
        \/ Pair_ExitContext(s)

PairSpec == PairInit /\ [][PairNext]_vars

\* ------------------------------------------------------ BasicAuthMiddleware
\* str.startswith on token sequences.
startswith(text, prefix) ==
    /\ Len(prefix) <= Len(text)
    /\ SubSeq(text, 1, Len(prefix)) = prefix

\* Lines 29-36
_is_path_exempt(path, patterns) ==
    \E i \in 1..Len(patterns) :
        IF Len(patterns[i].text) > 0 /\ patterns[i].text[Len(patterns[i].text)] = "*"
        THEN startswith(path.text, SubSeq(patterns[i].text, 1, Len(patterns[i].text) - 1))
        ELSE path = patterns[i]

\* The character U+00E9, which is not ASCII.
NonAsciiChars == {"U+00E9"}

\* Line 44, base64.b64decode(encoded).decode('utf-8') on the encoded words of
\* the model: the decoded text, or None where one of the two raises
\* (incorrect padding, bytes that are not UTF-8).
B64Decoded ==
    [w \in {"YWRtaW46czNjcmV0Ong=", "YWRtaW46d3Jvbmc=", "YWRtaW4=",
            "am9zw6k6czNjcmV0Ong=", "YWRtaW4", "/zp4"} |->
        CASE w = "YWRtaW46czNjcmV0Ong=" -> Str(<<"admin", ":", "s3cret", ":", "x">>)
          [] w = "YWRtaW46d3Jvbmc=" -> Str(<<"admin", ":", "wrong">>)
          [] w = "YWRtaW4=" -> Str(<<"admin">>)
          [] w = "am9zw6k6czNjcmV0Ong=" ->
                 Str(<<"jos", "U+00E9", ":", "s3cret", ":", "x">>)
          [] w = "YWRtaW4" -> None
          [] w = "/zp4" -> None]

\* Characters str.isspace() holds of: the space, the tab, the line feed and
\* the no-break space stand for the whole class.
Whitespace == {" ", "\t", "\n", "U+00A0"}

\* str.strip(): the whitespace at both ends is dropped.
RECURSIVE strip(_)
strip(text) ==
    IF text # <<>> /\ Head(text) \in Whitespace THEN strip(Tail(text))
    ELSE IF text # <<>> /\ text[Len(text)] \in Whitespace
    THEN strip(SubSeq(text, 1, Len(text) - 1))
    ELSE text

\* Lines 39-50: the scheme, without regard to case, then a space; what
\* follows the first space, stripped, is decoded and split at its first colon.
_parse_basic_auth_header(header_value) ==
    IF ~startswith(<<lower(header_value.text[1])>> \o Tail(header_value.text),
                   <<"basic", " ">>)
    THEN None
    ELSE LET encoded == strip(SubSeq(header_value.text, 3, Len(header_value.text)))
             decoded == IF encoded = <<>> THEN Str(<<>>) ELSE B64Decoded[encoded[1]]
         IN  IF decoded = None THEN None
             ELSE IF ~\E i \in 1..Len(decoded.text) : decoded.text[i] = ":" THEN None
             ELSE LET colon == CHOOSE i \in 1..Len(decoded.text) :
                                   /\ decoded.text[i] = ":"
                                   /\ \A j \in 1..(i - 1) : decoded.text[j] # ":"
                  IN  [username |-> SubSeq(decoded.text, 1, colon - 1),
                       password |-> SubSeq(decoded.text, colon + 1,
                                           Len(decoded.text))]

\* hmac.compare_digest on two str: TypeError unless both are ASCII.
compare_digest(a, b) ==
    IF \E i \in 1..Len(a) : a[i] \in NonAsciiChars THEN "TypeError"
    ELSE IF \E i \in 1..Len(b) : b[i] \in NonAsciiChars THEN "TypeError"
    ELSE IF a = b THEN "True"
    ELSE "False"

\* Lines 82-86: the value of the first header named authorization.
AuthorizationValue(headers) ==
    IF \E i \in 1..Len(headers) : lower(headers[i].name) = "authorization"
    THEN Str(headers[CHOOSE i \in 1..Len(headers) :
                         /\ lower(headers[i].name) = "authorization"
                         /\ \A j \in 1..(i - 1) :
                               lower(headers[j].name) # "authorization"].value)
    ELSE None

\* Lines 88-94: "True" or "False" for authorized, "TypeError" when a
\* comparison raises; "and" does not compare the passwords unless the user
\* names are equal.
Authorized ==
    LET header_value == AuthorizationValue(scope.headers)
        credentials == IF header_value # None /\ header_value.text # <<>>
                       THEN _parse_basic_auth_header(header_value)
                       ELSE None
    IN  IF credentials = None THEN "False"
        ELSE IF compare_digest(credentials.username, _user.text) # "True"
        THEN compare_digest(credentials.username, _user.text)
        ELSE compare_digest(credentials.password, _password.text)

\* The header lists of the scopes.
AuthHeaderLists ==
    LET host == Header("host", <<"app.example">>)
        good == "YWRtaW46czNjcmV0Ong="
    IN  { <<host>>,
          <<host, Header("authorization", <<"Basic", " ", good>>)>>,
          <<Header("Authorization", <<"BASIC", " ", good>>)>>,
          <<Header("authorization", <<"Basic", " ", " ", good, " ">>)>>,
          <<Header("authorization", <<"Basic", " ", "YWRtaW46d3Jvbmc=">>)>>,
          <<Header("authorization", <<"Basic", " ", "YWRtaW46d3Jvbmc=">>),
            Header("authorization", <<"Basic", " ", good>>)>>,
          <<Header("authorization", <<"Bearer", " ", good>>)>>,
          <<Header("authorization", <<"Basic", " ", "YWRtaW4=">>)>>,
          <<Header("authorization", <<"Basic", " ", "YWRtaW4">>)>>,
          <<Header("authorization", <<"Basic", " ", "/zp4">>)>>,
          <<Header("authorization", <<"Basic", " ", "am9zw6k6czNjcmV0Ong=">>)>>,
          <<Header("authorization", <<"Basic", " ">>)>>,
          <<Header("authorization", <<>>)>> }

\* Lines 61-66: the middleware as constructed from the environment, called
\* with one scope.
AuthInit ==
    /\ HandlerIdle
    /\ PairIdle
    /\ SandboxSpecIdle
    /\ scope \in [type : {"http", "websocket", "lifespan"},
                  path : {Str(<<"/">>), Str(<<"/", "health">>),
                          Str(<<"/", "health", "z">>),
                          Str(<<"/", "api", "/", "options">>)},
                  headers : AuthHeaderLists]
    /\ _user \in {None, Str(<<>>), Str(<<"admin">>)}
    /\ _password \in {None, Str(<<>>), Str(<<"s3cret", ":", "x">>)}
    /\ _exempt_paths \in {<<>>,
                          <<Str(<<"/", "health">>), Str(<<"/", "api", "/", "*">>)>>,
                          <<Str(<<"*">>)>>}
    /\ authPc = "Call"
    /\ appCalls = 0
    /\ sent = <<>>

\* "not self._user or not self._password"
AuthDisabledByConfig ==
    \/ _user = None
    \/ _user.text = <<>>
    \/ _password = None
    \/ _password.text = <<>>

\* Lines 68-113: __call__ up to its first await that is not the app; the app
\* is awaited in four places, each followed by return.
BasicAuthMiddleware_call ==
    /\ authPc = "Call"
    /\ IF \/ scope.type \notin {"http", "websocket"}
          \/ AuthDisabledByConfig
          \/ _is_path_exempt(scope.path, _exempt_paths)
       THEN /\ appCalls' = appCalls + 1
            /\ authPc' = "Returned"
            /\ UNCHANGED sent
       ELSE IF Authorized = "TypeError"
       THEN /\ authPc' = "Raised"
            /\ UNCHANGED <<appCalls, sent>>
       ELSE IF Authorized = "True"
       THEN /\ appCalls' = appCalls + 1
            /\ authPc' = "Returned"
            /\ UNCHANGED sent
       ELSE IF scope.type = "websocket"
       THEN /\ sent' = Append(sent, [type |-> "websocket.close", code |-> 1008])
            /\ authPc' = "Returned"
            /\ UNCHANGED appCalls
       ELSE /\ sent' = Append(sent, [type |-> "http.response.start", status |-> 401])
            /\ authPc' = "SendBody"
            /\ UNCHANGED appCalls
    /\ UNCHANGED <<handlerVars, pairVars, scope, _user, _password, _exempt_paths,
                   sandboxSpecVars>>

\* Lines 114-119
BasicAuthMiddleware_send_body ==
    /\ authPc = "SendBody"
    /\ sent' = Append(sent, [type |-> "http.response.body", body |-> "Unauthorized"])
    /\ authPc' = "Returned"
    /\ UNCHANGED <<handlerVars, pairVars, scope, _user, _password, _exempt_paths,
                   appCalls, sandboxSpecVars>>

AuthNext == BasicAuthMiddleware_call \/ BasicAuthMiddleware_send_body

AuthSpec == AuthInit /\ [][AuthNext]_vars

\* ------------------------------------------------- the sandbox template
\* SandboxSpecInfo of openhands/app_server/sandbox/sandbox_spec_models.py: one
\* construction of the model, as far as its working_dir goes. A str is here
\* the sequence of its characters.

\* The longest working_dir a caller gives, in characters.
MaxWorkingDirLen == 3

\* The caller gave no working_dir at all: pydantic takes the default of the
\* field and does not run the validator on it.
PydanticUndefined == [undefined |-> TRUE]

\* Line 17.
DefaultWorkingDir == Str(<<"/home/openhands/workspace">>)

\* What a caller gives as working_dir: nothing, None, or a str of whitespace
\* (space, tab, no-break space) and of other characters.
WorkingDirValues ==
    {PydanticUndefined, None} \cup
    {Str(text) : text \in UNION {[1..n -> {" ", "\t", "U+00A0", "/", "a", "."}] :
                                    n \in 0..MaxWorkingDirLen}}

\* A variant that replaces only the empty str.
normalize_working_dir_EmptyOnly(value) ==
    IF value = None THEN Str(<<".">>)
    ELSE IF "text" \in DOMAIN value /\ value.text = <<>> THEN Str(<<".">>)
    ELSE value

\* Lines 19-27: the 'before' validator of working_dir.
normalize_working_dir(value) ==
    IF value = None THEN Str(<<".">>)
    ELSE IF "text" \in DOMAIN value /\ strip(value.text) = <<>> THEN Str(<<".">>)
    ELSE value

SandboxSpecInit ==
    /\ HandlerIdle
    /\ PairIdle
    /\ AuthIdle
    /\ input_value \in WorkingDirValues
    /\ working_dir = None

\* SandboxSpecInfo(..., working_dir=input_value), or SandboxSpecInfo(...)
\* without the field.
SandboxSpecInfo_init ==
    /\ working_dir = None
    /\ working_dir' = IF input_value = PydanticUndefined THEN DefaultWorkingDir
                      ELSE normalize_working_dir(input_value)
    /\ UNCHANGED <<handlerVars, pairVars, authVars, input_value>>

SandboxSpec == SandboxSpecInit /\ [][SandboxSpecInfo_init]_vars

\* ------------------------------------------------------------ the claims
TaskOf(t) == IF t = "c2s" THEN c2s ELSE s2c

HandlerDone == pc \in {"Closed", "Raised", "Responded"}

\* The pump tasks were created: the session got as far as Relaying.
Relayed == c2s.pos # "idle"

\* The failure kinds of resolution and their close codes, as the error
\* classification states them.
ParsedIds == [id \in ConversationIds |-> UUID(id)]

ValidId == ParsedIds[conversation_id] # ValueError

ConversationFound ==
    /\ ValidId
    /\ get_app_conversation_info(ParsedIds[conversation_id]) # None

AssignedSandbox ==
    get_sandbox(get_app_conversation_info(ParsedIds[conversation_id]).sandbox_id)

\* The descriptor is absent, or its exposed-location set is missing or empty.
DescriptorUnusable ==
    \/ AssignedSandbox = None
    \/ AssignedSandbox.exposed_urls = None
    \/ Len(AssignedSandbox.exposed_urls.items) = 0

SandboxUsable == ConversationFound /\ ~DescriptorUnusable

AgentServerExposed ==
    /\ SandboxUsable
    /\ \E i \in DOMAIN AssignedSandbox.exposed_urls.items :
          AssignedSandbox.exposed_urls.items[i].name = "AGENT_SERVER"

FailureKind ==
    IF ~ValidId THEN "InvalidId"
    ELSE IF ~ConversationFound THEN "ConversationNotFound"
    ELSE IF ~AgentServerExposed THEN "BackendUnavailable"
    ELSE "none"

CloseCodeOf(kind) ==
    CASE kind = "InvalidId" -> WS_1008_POLICY_VIOLATION
      [] kind = "ConversationNotFound" -> WS_1008_POLICY_VIOLATION
      [] kind = "BackendUnavailable" -> WS_1013_TRY_AGAIN_LATER

\* C1: every streaming session eventually reaches Closed, the handler having
\* returned, on every path: the only other course is to relay for ever
\* between two peers that stay connected.
LiveRelay ==
    /\ pc = "Wait"
    /\ clientState = "open"
    /\ serverState = "open"
    /\ FinishedTasks = {}

C1_EveryPathReachesClosed ==
    endpoint = "ws" => (<>(pc = "Closed") \/ <>[]LiveRelay)

\* C2: once the handler has left the relaying block, both pump tasks are
\* finished, every pump that was still pending when asyncio.wait returned was
\* cancelled and has ended as cancelled, and the handler has not raised.
C2_OtherPumpCancelledAndAwaited ==
    (endpoint = "ws" /\ Relayed /\ pc \in {"ExitContext", "Closed", "Raised"}) =>
        /\ Finished(c2s) /\ Finished(s2c)
        /\ \A t \in {"c2s", "s2c"} \ done :
              t \in cancelRequested /\ TaskOf(t).pos = "cancelled"
        /\ pc # "Raised"

C2_Witness ==
    /\ pc = "Closed"
    /\ done = {"s2c"}
    /\ c2s.pos = "cancelled"
    /\ s2c.pos = "finished"

\* C3: when the client-to-backend pump is the one asyncio.wait reports done,
\* ended by the browser's disconnect, the session goes on to Closed with the
\* backend-to-client pump cancelled, and the handler returns.
ClientDisconnectedFirst ==
    /\ endpoint = "ws"
    /\ done = {"c2s"}
    /\ c2s.exit = "disconnect"

C4_BothHalvesClosed ==
    (endpoint = "ws" /\ pc \in {"Closed", "Raised"}) =>
        /\ clientState \in {"closed", "disconnected"}
        /\ serverState \in {"none", "closed"}

\* C5: teardown does not depend on the direction: after asyncio.wait, exactly
\* the tasks not done are cancelled, and they end as cancelled; when both are
\* done none is cancelled; and the session goes on to Closed in each case.
C5_TeardownShape ==
    (endpoint = "ws" /\ done # {}) =>
        /\ cancelRequested = {"c2s", "s2c"} \ done
        /\ \A t \in done : TaskOf(t).pos = "finished"
        /\ pc \in {"ExitContext", "Closed"} =>
              \A t \in cancelRequested : TaskOf(t).pos = "cancelled"

C5_SymmetricTeardown ==
    /\ []C5_TeardownShape
    /\ (endpoint = "ws" /\ done # {}) ~> (pc = "Closed")

C5_Witness ==
    /\ pc = "Closed"
    /\ done = {"c2s", "s2c"}
    /\ cancelRequested = {}

\* C6: accept only after resolution succeeded, connect only after accept;
\* a failed resolution ends with one close, carrying the code mapped to its
\* failure kind, with no accept and no connect.
C6_Ordering ==
    /\ accepted => (FailureKind = "none" /\ ws_url # None)
    /\ connectAttempts > 0 => accepted
    /\ FailureKind # "none" => (~accepted /\ connectAttempts = 0)

C6_AcceptAfterResolution ==
    endpoint = "ws" =>
        /\ C6_Ordering
        /\ (FailureKind # "none" /\ pc = "Closed") =>
              closeCalls = <<CloseCodeOf(FailureKind)>>

\* C7: an identifier that is no UUID: close 1008 on the streaming endpoint,
\* status 404 on the request endpoint, and no lookup at all.
C7_MalformedId ==
    ~ValidId =>
        /\ convLookups = 0 /\ sandboxLookups = 0
        /\ (endpoint = "ws" /\ pc # "Start") =>
              /\ pc = "Closed"
              /\ closeCalls = <<WS_1008_POLICY_VIOLATION>>
              /\ ~accepted
        /\ (endpoint = "http" /\ pc # "Start") =>
              /\ pc = "Responded"
              /\ response.status_code = 404

C7_Witness ==
    /\ endpoint = "ws"
    /\ conversation_id = IdNonHex
    /\ pc = "Closed"

\* C8: a well-formed identifier without conversation record: close 1008,
\* status 404, exactly one conversation lookup and no sandbox lookup.
C8_ConversationNotFound ==
    (endpoint \in {"ws", "http"} /\ ValidId /\ ~ConversationFound) =>
        /\ sandboxLookups = 0
        /\ HandlerDone =>
              /\ convLookups = 1
              /\ endpoint = "ws" =>
                    /\ pc = "Closed"
                    /\ closeCalls = <<WS_1008_POLICY_VIOLATION>>
                    /\ ~accepted
              /\ endpoint = "http" => response.status_code = 404

C8_Witness ==
    /\ endpoint = "http"
    /\ ValidId /\ ~ConversationFound
    /\ pc = "Responded"

\* C9: the sandbox is absent, or has no exposed URLs (None or empty): the
\* streaming endpoint closes with 1013 without accepting or connecting; the
\* lookup of the request path hands back no sandbox, and nothing is forwarded.
C9_BackendUnavailable ==
    (ConversationFound /\ ~SandboxUsable /\ HandlerDone) =>
        /\ endpoint = "ws" =>
              /\ pc = "Closed"
              /\ closeCalls = <<WS_1013_TRY_AGAIN_LATER>>
              /\ ~accepted /\ connectAttempts = 0
        /\ endpoint = "http" =>
              /\ sandbox = None
              /\ base_url = None
              /\ httpRequests = 0

C9_Witness ==
    /\ endpoint = "ws"
    /\ ConversationFound
    /\ AssignedSandbox # None
    /\ AssignedSandbox.exposed_urls = List(<<>>)
    /\ pc = "Closed"

\* C10: exposed URLs, none of them the agent server: close 1013 on the
\* streaming endpoint and status 503 on the request endpoint.
C10_NoAgentServerLocation ==
    (SandboxUsable /\ ~AgentServerExposed /\ HandlerDone) =>
        /\ endpoint = "ws" => closeCalls = <<WS_1013_TRY_AGAIN_LATER>>
        /\ endpoint = "http" => response.status_code = 503

\* C11: on the request endpoint a failed lookup answers 404 only when the
\* conversation record is missing, and 503 whenever the conversation exists
\* but its backend is unavailable (descriptor absent, or no exposed URLs).
LookupFailed == endpoint = "http" /\ pc = "Responded" /\ httpRequests = 0

C11_RetryableDistinguished ==
    LookupFailed =>
        /\ response.status_code = 404 => ~ConversationFound
        /\ (ConversationFound /\ DescriptorUnusable) => response.status_code = 503

\* C12: on the path-prefixed streaming endpoint, a prefix id that differs
\* from the conversation id ends in one close with 1008, and there is never a
\* conversation lookup, a sandbox lookup, an accept or an outbound connect.
PrefixMismatch ==
    /\ endpoint = "ws_runtime"
    /\ runtime_conversation_id # conversation_id

C12_PrefixMismatch ==
    PrefixMismatch =>
        /\ convLookups = 0 /\ sandboxLookups = 0
        /\ ~accepted /\ connectAttempts = 0
        /\ pc \in {"Route", "Closed"}
        /\ pc = "Closed" => closeCalls = <<WS_1008_POLICY_VIOLATION>>

\* The two parameters name the same conversation in different spellings.
C12_Witness ==
    /\ PrefixMismatch
    /\ runtime_conversation_id = IdHex
    /\ conversation_id = IdHyphen
    /\ pc = "Closed"

\* C13: a refused outbound connection closes the inbound connection with
\* 1013, any other fault of the connect (a timeout included) closes it with
\* 1011, and in neither case does the fault leave the handler.
C13_CloseCodes ==
    (Streaming /\ connectFault # "none") =>
        closeCalls = <<IF connectFault = "ConnectionRefusedError"
                       THEN WS_1013_TRY_AGAIN_LATER
                       ELSE WS_1011_INTERNAL_ERROR>>

C13_ConnectFaultsHandled ==
    (Streaming /\ connectFault # "none") =>
        /\ C13_CloseCodes
        /\ pc = "Closed"

\* C14: with a resolved target, the one outbound call decides the status: a
\* timeout (a connect timeout included) gives 504, a failed connection 503,
\* any other fault 500, a completed call the status of the agent-server; and
\* the forwarder answers in every case.
ExpectedStatus ==
    CASE outcome.raised = "" -> outcome.result.status_code
      [] outcome.raised \in {"ConnectTimeout", "ReadTimeout"} -> 504
      [] outcome.raised = "ConnectError" -> 503
      [] OTHER -> 500

C14_OutboundOutcomeStatus ==
    (endpoint = "http" /\ httpRequests > 0) =>
        /\ httpRequests = 1
        /\ pc = "Responded"
        /\ response.status_code = ExpectedStatus

C14_Witness ==
    /\ endpoint = "http"
    /\ pc = "Responded"
    /\ outcome = Raised("ConnectTimeout")
    /\ response.status_code = 504

\* C15: no header whose name is in the hop-by-hop block list, whatever its
\* casing, is in the outbound request or in the returned response, and every
\* other header is copied through unchanged.
BlockList ==
    {"connection", "keep-alive", "proxy-authenticate", "proxy-authorization",
     "te", "trailers", "transfer-encoding", "upgrade", "host"}

Blocked(name) == lower(name) \in BlockList

\* The header h, name compared without regard to case, is among the headers.
Carries(headers, h) ==
    \E j \in 1..Len(headers) :
        /\ lower(headers[j].name) = lower(h.name)
        /\ headers[j].value = h.value

Forwarded == endpoint = "http" /\ httpRequests > 0

Answered == Forwarded /\ outcome.raised = ""

C15_HopByHopAbsent ==
    /\ Forwarded =>
          \A j \in 1..Len(forward_headers.entries) :
              ~Blocked(forward_headers.entries[j].name)
    /\ Answered =>
          \A j \in 1..Len(response.headers) : ~Blocked(response.headers[j].name)

C15_OthersCopied ==
    /\ Forwarded =>
          \A i \in 1..Len(request.headers) :
              ~Blocked(request.headers[i].name) =>
                  Carries(forward_headers.entries, request.headers[i])
    /\ Answered =>
          \A i \in 1..Len(outcome.result.headers) :
              ~Blocked(outcome.result.headers[i].name) =>
                  Carries(response.headers, outcome.result.headers[i])

C15_HeadersFiltered == C15_HopByHopAbsent /\ C15_OthersCopied

\* C16: the streaming URL is ws://host:port/sockets/events/{id} for an http
\* location of the agent server and wss://... for an https one, host and port
\* being those of the location after normalization; the builder returns no
\* URL exactly when no exposed URL is named for the agent server.
Built == pc = "Returned"

AgentServerNamed ==
    \E i \in 1..Len(sandbox.exposed_urls.items) :
        sandbox.exposed_urls.items[i].name = "AGENT_SERVER"

\* The location the builder has to use: the first one named AGENT_SERVER.
AgentLocation ==
    LET items == sandbox.exposed_urls.items
    IN  items[CHOOSE i \in 1..Len(items) :
                  /\ items[i].name = "AGENT_SERVER"
                  /\ \A j \in 1..(i - 1) : items[j].name # "AGENT_SERVER"].url.text

StreamingScheme(scheme) ==
    CASE scheme = "http" -> "ws"
      [] scheme = "https" -> "wss"

NormalizedHost(host) ==
    IF inDocker /\ host = "localhost" THEN "host.docker.internal" ELSE host

C16_SchemeMapping ==
    Built =>
        /\ ws_url = None <=> ~AgentServerNamed
        /\ AgentServerNamed =>
              /\ SubSeq(ws_url.text, 1, 6) =
                     <<StreamingScheme(AgentLocation[1]), "://",
                       NormalizedHost(AgentLocation[3]), ":", AgentLocation[5],
                       "/sockets/events/">>
              /\ SubSeq(ws_url.text, 7, 6 + Len(conversation_id)) = conversation_id

C16_Witness ==
    /\ Built
    /\ AgentServerNamed
    /\ AgentLocation[1] = "https"
    /\ ws_url.text[1] = "wss"

\* C17: with a credential the streaming URL ends in "?" and one query
\* parameter, session_api_key, whose value decodes to the credential; without
\* one (None, or the empty string) the URL has no "?".
CredentialPresent == sandbox.session_api_key \notin {NoneStr, ""}

\* urllib.parse.unquote_plus, as the receiver of the URL applies it.
Decoded ==
    [v \in {"", "test-api-key", "k+/ 1", "k%2B%2F+1"} |->
        CASE v = "k+/ 1" -> "k / 1"
          [] v = "k%2B%2F+1" -> "k+/ 1"
          [] OTHER -> v]

QueryMarks(text) == {i \in 1..Len(text) : text[i] = "?"}

C17_CredentialInQuery ==
    (Built /\ AgentServerNamed) =>
        LET n == 6 + Len(conversation_id)
        IN  IF CredentialPresent
            THEN /\ Len(ws_url.text) = n + 4
                 /\ QueryMarks(ws_url.text) = {n + 1}
                 /\ ws_url.text[n + 2] = "session_api_key"
                 /\ ws_url.text[n + 3] = "="
                 /\ Decoded[ws_url.text[n + 4]] = sandbox.session_api_key
            ELSE /\ Len(ws_url.text) = n
                 /\ QueryMarks(ws_url.text) = {}

C17_Witness ==
    /\ Built
    /\ AgentServerNamed
    /\ sandbox.session_api_key = "k+/ 1"
    /\ ws_url.text[Len(ws_url.text)] = "k%2B%2F+1"

\* C18: the target of the forwarded request is the normalized base URL of the
\* agent server without trailing slashes, one "/", the requested sub-path and,
\* when the inbound request has a query string, "?" and that string as it
\* came; without a query string the target has no "?".
\* The length of the text once its trailing slashes are dropped.
StrippedLen(text) ==
    CHOOSE n \in 0..Len(text) :
        /\ n = 0 \/ text[n] # "/"
        /\ \A k \in (n + 1)..Len(text) : text[k] = "/"

NormalizedBase ==
    [i \in 1..StrippedLen(AgentLocation) |->
        IF i = 3 THEN NormalizedHost(AgentLocation[i]) ELSE AgentLocation[i]]

TargetBuilt == endpoint = "http" /\ pc \in {"Request", "Responded"} /\ target_url # None

C18_TargetUrl ==
    TargetBuilt =>
        /\ target_url.text =
               NormalizedBase \o <<"/">> \o request.path.text
                   \o (IF request.query.text # <<>>
                       THEN <<"?">> \o request.query.text
                       ELSE <<>>)
        /\ request.query.text = <<>> => QueryMarks(target_url.text) = {}

\* A base URL that ends in "/", and a query string.
C18_Witness ==
    /\ TargetBuilt
    /\ AgentLocation[Len(AgentLocation)] = "/"
    /\ request.query.text # <<>>
    /\ pc = "Responded"

\* C19: in each direction the messages written to the destination are, at
\* every moment, a prefix of the messages read from the source: in order,
\* none twice, none merged, and at most the one message in hand not yet
\* written.
IsPrefix(written, read) ==
    /\ Len(written) <= Len(read)
    /\ \A i \in 1..Len(written) : written[i] = read[i]

C19_OrderedDelivery ==
    Streaming =>
        /\ IsPrefix(serverIn, c2sRead)
        /\ IsPrefix(clientIn, s2cRead)
        /\ Len(c2sRead) - Len(serverIn) <= 1
        /\ Len(s2cRead) - Len(clientIn) <= 1

C19_Witness ==
    /\ Len(serverIn) = 2
    /\ serverIn = c2sRead
    /\ serverIn[1].n = 1
    /\ serverIn[2].n = 2

\* C20: a message is written with the framing it was read with, text as text
\* and binary as binary, in both directions; and a binary message from the
\* browser does not end the client-to-backend pump: the pump is finished with
\* a binary message read and not written only if the agent-server connection
\* was no longer open for the write.
C20_KindsPreserved ==
    /\ \A i \in 1..Len(serverIn) : serverIn[i].kind = c2sRead[i].kind
    /\ \A i \in 1..Len(clientIn) : clientIn[i].kind = s2cRead[i].kind

BinaryEndedPump ==
    /\ c2s.pos = "finished"
    /\ Len(c2sRead) > Len(serverIn)
    /\ c2sRead[Len(c2sRead)].kind = "bytes"
    /\ serverState = "open"

C20_FramingPreserved ==
    Streaming => (C20_KindsPreserved /\ ~BinaryEndedPump)

\* C21: the core never retries. Whatever the failure, one resolution makes at
\* most one conversation lookup and at most one backend lookup, one streaming
\* session at most one outbound connect attempt, and one forward call at
\* most one outbound request.
C21_NoRetry ==
    /\ convLookups <= 1
    /\ sandboxLookups <= 1
    /\ connectAttempts <= 1
    /\ httpRequests <= 1

\* The outbound request failed and the call is over.
C21_Witness ==
    /\ endpoint = "http"
    /\ pc = "Responded"
    /\ outcome # None
    /\ outcome.raised \in RequestFaults
    /\ convLookups = 1
    /\ sandboxLookups = 1
    /\ httpRequests = 1

\* C22: a close of the inbound connection that fails, because the browser
\* has already gone, never leaves the handler. In the branches that guard
\* their close the handler never raises.
C22_GuardedBranches ==
    (Streaming /\ connectFault # "ConnectionRefusedError") => pc # "Raised"

\* C22: in every branch, the connection-refused branch with the browser
\* already disconnected included, a failing close is suppressed and the
\* handler returns normally.
C22_CloseFailureSuppressed ==
    /\ C22_GuardedBranches
    /\ (Streaming /\ connectFault = "ConnectionRefusedError"
            /\ clientState = "disconnected") => pc = "Closed"

\* The ways a call or a session fails, told apart by what the caller may
\* know: none of them looks at a backend URL, at a credential or at the name
\* or text of a fault beyond its class.
FailureClass ==
    IF endpoint = "ws_runtime" /\ runtime_conversation_id # conversation_id
    THEN "PrefixMismatch"
    ELSE IF ~ValidId THEN "InvalidId"
    ELSE IF ~ConversationFound THEN "ConversationNotFound"
    ELSE IF DescriptorUnusable THEN "BackendUnavailable"
    ELSE IF ~AgentServerExposed THEN "NoAgentServer"
    ELSE IF Streaming
    THEN IF connectFault = "none" THEN "none"
         ELSE IF connectFault = "ConnectionRefusedError" THEN "Refused"
         ELSE "OtherFault"
    ELSE IF outcome = None THEN "none"
    ELSE IF outcome.raised = "" THEN "none"
    ELSE IF outcome.raised \in {"ConnectTimeout", "ReadTimeout"} THEN "Timeout"
    ELSE IF outcome.raised = "ConnectError" THEN "ConnectFailed"
    ELSE "OtherFault"

FixedCloseCode(class) ==
    CASE class \in {"PrefixMismatch", "InvalidId", "ConversationNotFound"} -> 1008
      [] class \in {"BackendUnavailable", "Refused"} -> 1013
      [] class \in {"NoAgentServer", "OtherFault"} -> 1011

FixedResponse(class) ==
    CASE class \in {"InvalidId", "ConversationNotFound", "BackendUnavailable"} ->
             [status_code |-> 404,
              content |-> "Conversation not found or sandbox not running",
              headers |-> <<>>]
      [] class = "NoAgentServer" ->
             [status_code |-> 503, content |-> "Agent server not available",
              headers |-> <<>>]
      [] class = "Timeout" ->
             [status_code |-> 504, content |-> "Gateway timeout", headers |-> <<>>]
      [] class = "ConnectFailed" ->
             [status_code |-> 503, content |-> "Agent server unavailable",
              headers |-> <<>>]
      [] class = "OtherFault" ->
             [status_code |-> 500, content |-> "Internal proxy error",
              headers |-> <<>>]

\* C23: what the caller receives on a failure is a function of the failure
\* class alone: one close code and nothing written, or one status with one
\* fixed body and no header. Two runs that fail in the same class therefore
\* get the same answer, whatever the backend's URL, its credential or the
\* fault that was raised.
C23_FixedAnswer ==
    (HandlerDone /\ FailureClass # "none") =>
        IF Streaming
        THEN /\ closeCalls = <<FixedCloseCode(FailureClass)>>
             /\ clientIn = <<>>
        ELSE response = FixedResponse(FailureClass)

\* An unexpected fault of the outbound request, with a credential in play.
C23_Witness ==
    /\ endpoint = "http"
    /\ pc = "Responded"
    /\ sandbox # None
    /\ sandbox.session_api_key = "test-api-key"
    /\ outcome = Raised("RemoteProtocolError")
    /\ response.content = "Internal proxy error"

\* C24: cancellation of a pump is final. From the moment cancel() was called
\* on a pump, the pump reads nothing more from its source and writes nothing
\* more to its destination, the request is never withdrawn, and the only
\* step the task still takes is to end as cancelled: it is not restarted.
CancellationFinal(t, read, read2, written, written2) ==
    t \in cancelRequested =>
        /\ t \in cancelRequested'
        /\ read2 = read
        /\ written2 = written

C24_Step ==
    /\ CancellationFinal("c2s", c2sRead, c2sRead', serverIn, serverIn')
    /\ CancellationFinal("s2c", s2cRead, s2cRead', clientIn, clientIn')
    /\ "c2s" \in cancelRequested => c2s' \in {c2s, Task("cancelled", "cancelled", None)}
    /\ "s2c" \in cancelRequested => s2c' \in {s2c, Task("cancelled", "cancelled", None)}
    /\ c2s.pos = "cancelled" => c2s' = c2s
    /\ s2c.pos = "cancelled" => s2c' = s2c

C24_CancellationFinal == [][C24_Step]_vars

\* The client-to-backend pump was cancelled while it held a message it had
\* read and not yet written; the message was never written.
C24_Witness ==
    /\ c2s.pos = "cancelled"
    /\ Len(c2sRead) = 1
    /\ serverIn = <<>>
    /\ pc = "Closed"

\* The backend of the call or session has a session credential.
HasSessionCredential ==
    /\ sandbox # None
    /\ sandbox.session_api_key \notin {NoneStr, ""}

\* The entries of a dict of headers that bear the dedicated name.
CredentialEntries(d) ==
    {j \in 1..Len(d.entries) : d.entries[j].name = "X-Session-API-Key"}

\* C25: with a session credential the outbound request carries one header
\* X-Session-API-Key whose value is that credential, and so do the headers
\* of the streaming connect; without one, no header of that name is added:
\* the outbound request has only headers the inbound request had, and the
\* connect has none.
C25_CredentialHeader ==
    /\ (endpoint = "http" /\ httpx_request # None) =>
          IF HasSessionCredential
          THEN /\ Cardinality(CredentialEntries(httpx_request.headers)) = 1
               /\ \A j \in CredentialEntries(httpx_request.headers) :
                     httpx_request.headers.entries[j].value =
                         <<sandbox.session_api_key>>
          ELSE /\ CredentialEntries(httpx_request.headers) = {}
               /\ \A j \in 1..Len(httpx_request.headers.entries) :
                     Carries(request.headers, httpx_request.headers.entries[j])
    /\ (Streaming /\ additional_headers # None) =>
          additional_headers.entries =
              IF HasSessionCredential
              THEN <<[name |-> "X-Session-API-Key",
                      value |-> <<sandbox.session_api_key>>]>>
              ELSE <<>>

C25_Witness ==
    /\ endpoint = "http"
    /\ pc = "Responded"
    /\ httpx_request # None
    /\ sandbox.session_api_key = "test-api-key"
    /\ \E j \in 1..Len(httpx_request.headers.entries) :
          httpx_request.headers.entries[j] =
              [name |-> "X-Session-API-Key", value |-> <<"test-api-key">>]

\* C26: with a session credential, every header of the outbound request
\* whose name is the credential header's name, compared without regard to
\* case, has the backend's own credential as its value: nothing the inbound
\* caller supplied under that name goes out.
C26_OnlyBackendCredential ==
    (endpoint = "http" /\ httpx_request # None /\ HasSessionCredential) =>
        \A j \in 1..Len(httpx_request.headers.entries) :
            lower(httpx_request.headers.entries[j].name) = "x-session-api-key" =>
                httpx_request.headers.entries[j].value = <<sandbox.session_api_key>>

\* C27: whatever the method, the outbound request has the method of the
\* inbound one, the inbound body unchanged as its content when that body is
\* not empty, and no content at all, rather than an empty one, when it is.
C27_BodyForwarded ==
    (endpoint = "http" /\ httpx_request # None) =>
        /\ httpx_request.method = request.method
        /\ request.body.bytes # "" => httpx_request.content = request.body
        /\ request.body.bytes = "" => httpx_request.content = None

\* A POST with an empty body went out without content.
C27_Witness ==
    /\ endpoint = "http"
    /\ httpx_request # None
    /\ request.method = "POST"
    /\ request.body = [bytes |-> ""]
    /\ httpx_request.content = None

\* A PUT with a body went out with that body.
C27_WitnessBody ==
    /\ endpoint = "http"
    /\ httpx_request # None
    /\ request.method = "PUT"
    /\ httpx_request.content = [bytes |-> "{\"command\": \"ls\"}"]

\* The handler was cancelled while it waited in asyncio.wait, and has exited.
HandlerAborted == Streaming /\ pc = "Cancelled"

\* C29: the connection to the agent-server is closed when a cancelled
\* handler has exited.
C29_BackendClosed == HandlerAborted => serverState = "closed"

\* C29: when a handler cancelled in its wait for the first pump has exited,
\* both pump tasks are over and the connection to the agent-server is
\* closed: no task outlives the session.
C29_NoPumpOutlivesHandler ==
    HandlerAborted =>
        /\ Finished(c2s)
        /\ Finished(s2c)
        /\ serverState = "closed"

\* Every message session s holds or has written came in on a connection of
\* session s: what its client-to-backend pump holds and what was written to
\* its agent-server came from its browser, and the other way round.
OwnMessages(s) ==
    /\ \A i \in 1..Len(sessions[s].serverIn) :
          /\ sessions[s].serverIn[i].session = s
          /\ sessions[s].serverIn[i].side = "client"
    /\ \A i \in 1..Len(sessions[s].clientIn) :
          /\ sessions[s].clientIn[i].session = s
          /\ sessions[s].clientIn[i].side = "backend"
    /\ sessions[s].c2s.pos = "send" =>
          /\ sessions[s].c2s.data.session = s
          /\ sessions[s].c2s.data.side = "client"
    /\ sessions[s].s2c.pos = "send" =>
          /\ sessions[s].s2c.data.session = s
          /\ sessions[s].s2c.data.side = "backend"

C28_MessagesStayInSession == \A s \in SessionIds : OwnMessages(s)

\* A step in which a pump of session s ends, is cancelled, or in which the
\* handler of session s moves on in its teardown.
TeardownStep(s) ==
    \/ sessions'[s].pc # sessions[s].pc
    \/ sessions'[s].cancelRequested # sessions[s].cancelRequested
    \/ \E t \in PumpNames : Finished(sessions'[s][t]) /\ ~Finished(sessions[s][t])

\* What can be cancelled or closed in session o is cancelled or closed by
\* session o itself: a pump only after a pump of o has ended and o's wait
\* returned, the connection to the agent-server only when o leaves its
\* "async with".
OwnTeardown(o) ==
    /\ sessions'[o].cancelRequested # sessions[o].cancelRequested =>
          /\ sessions[o].pc = "Wait"
          /\ PairFinished(o) # {}
          /\ sessions'[o].cancelRequested = PumpNames \ PairFinished(o)
    /\ (sessions'[o].serverState = "closed" /\ sessions[o].serverState # "closed") =>
          sessions[o].pc = "ExitContext"
    /\ sessions'[o].clientState = "closed" => sessions[o].clientState = "closed"

C28_Step ==
    \A s \in SessionIds :
        /\ OwnTeardown(s)
        /\ TeardownStep(s) => \A o \in SessionIds \ {s} : sessions'[o] = sessions[o]

\* C28: two concurrent sessions are isolated under every interleaving. A
\* message read from a connection of one session is written only to the
\* other connection of that session, and the end or the cancellation of one
\* session's pumps cancels and closes nothing of the other session.
C28_SessionsIsolated ==
    /\ []C28_MessagesStayInSession
    /\ [][C28_Step]_vars

\* Session A is over, one of its pumps cancelled, while session B, which
\* started no later, still relays and has delivered a message of its own.
C28_Witness ==
    /\ sessions["A"].pc = "Closed"
    /\ \E t \in PumpNames : sessions["A"][t].pos = "cancelled"
    /\ sessions["B"].pc = "Wait"
    /\ sessions["B"].cancelRequested = {}
    /\ sessions["B"].serverState = "open"
    /\ Len(sessions["B"].serverIn) = 1
    /\ Len(sessions["A"].clientIn) = 1

\* The call of the middleware is over: it returned, or an exception left it.
AuthDone == authPc \in {"Returned", "Raised"}

\* Authentication is disabled: the user or the password is not configured.
AuthDisabled ==
    \/ _user \in {None, Str(<<>>)}
    \/ _password \in {None, Str(<<>>)}

\* The path matches an exempt pattern: exactly, or by the prefix before a
\* trailing *.
PathExempt ==
    \E i \in 1..Len(_exempt_paths) :
        LET pattern == _exempt_paths[i].text
        IN  IF pattern[Len(pattern)] = "*"
            THEN \E k \in 0..Len(scope.path.text) :
                     SubSeq(scope.path.text, 1, k) = SubSeq(pattern, 1, Len(pattern) - 1)
            ELSE scope.path.text = pattern

\* The words that are the Base64 of "user:password" for the configured pair.
EncodingsOfConfigured ==
    {w \in DOMAIN B64Decoded :
        B64Decoded[w] = Str(_user.text \o <<":">> \o _password.text)}

\* The Authorization header, the first one if there are several, is
\* "Basic <word>", the scheme in any case, with spaces around the word.
CarriesConfiguredCredentials ==
    \E i \in 1..Len(scope.headers) :
        /\ lower(scope.headers[i].name) = "authorization"
        /\ \A j \in 1..(i - 1) : lower(scope.headers[j].name) # "authorization"
        /\ LET value == scope.headers[i].value
           IN  /\ Len(value) >= 3
               /\ lower(value[1]) = "basic"
               /\ value[2] = " "
               /\ \E k \in 3..Len(value) :
                     /\ value[k] \in EncodingsOfConfigured
                     /\ \A m \in 3..Len(value) : m # k => value[m] = " "

ShouldForward ==
    \/ scope.type \notin {"http", "websocket"}
    \/ AuthDisabled
    \/ PathExempt
    \/ CarriesConfiguredCredentials

Refusal ==
    IF scope.type = "websocket"
    THEN <<[type |-> "websocket.close", code |-> 1008]>>
    ELSE <<[type |-> "http.response.start", status |-> 401],
           [type |-> "http.response.body", body |-> "Unauthorized"]>>

\* A comparison of the credentials raised, and the exception left the call.
ComparisonRaised == authPc = "Raised"

\* C30: unless a comparison of the credentials raises, the middleware is the
\* gate described: the app is called at most once, exactly in the cases
\* named, and otherwise the caller gets the close or the 401 with its body.
C30_GateUnlessRaised ==
    (AuthDone /\ ~ComparisonRaised) =>
        /\ appCalls <= 1
        /\ ShouldForward => (appCalls = 1 /\ sent = <<>>)
        /\ ~ShouldForward => (appCalls = 0 /\ sent = Refusal)

\* C30: the middleware forwards each connection to the app at most once,
\* exactly when the scope is neither http nor websocket, or authentication
\* is disabled, or the path is exempt, or the Authorization header carries
\* the configured Basic credentials; otherwise the app is not called and the
\* caller gets a WebSocket close 1008, or a 401 response start and its body.
C30_Gate ==
    AuthDone =>
        /\ authPc = "Returned"
        /\ appCalls <= 1
        /\ ShouldForward => (appCalls = 1 /\ sent = <<>>)
        /\ ~ShouldForward => (appCalls = 0 /\ sent = Refusal)

\* ---- C31
IsStr(v) == "text" \in DOMAIN v

\* Empty, or nothing but whitespace.
WhitespaceOnly(text) == \A i \in 1..Len(text) : text[i] \in Whitespace

Dot == Str(<<".">>)

\* C31: SandboxSpecInfo.normalize_working_dir never yields an empty working
\* directory: given None, the empty str or a str of whitespace alone it
\* yields '.', it yields every other str as it was given, and applied to its
\* own result it yields that result again.
C31_NormalizedWorkingDir ==
    (working_dir # None /\ input_value # PydanticUndefined) =>
        /\ working_dir = normalize_working_dir(input_value)
        /\ IsStr(working_dir) /\ working_dir.text # <<>>
        /\ (input_value = None \/ WhitespaceOnly(input_value.text))
               => working_dir = Dot
        /\ (input_value # None /\ ~WhitespaceOnly(input_value.text))
               => working_dir = input_value
        /\ normalize_working_dir(working_dir) = working_dir

\* A working_dir of a space and a tab was given and '.' was stored.
C31_Witness ==
    /\ input_value = Str(<<" ", "\t">>)
    /\ working_dir = Dot

====
